---- MODULE Spec2Model ----
(***************************************************************************)
(* A model of the JSON library of src/json.hpp and of the serialization    *)
(* engine of src/include/json_serial.hpp.                                  *)
(*                                                                         *)
(* Text (std::string, stream contents) is a sequence of one-character      *)
(* strings.  A json::Base node is a record whose "kind" field is the       *)
(* node's Type tag; every kind has its own payload field.  An Object's     *)
(* m_entries is a function from keys (texts) to nodes, an Array's          *)
(* m_elements a sequence of nodes.                                         *)
(***************************************************************************)
EXTENDS Integers, Sequences, FiniteSets, TLC

VARIABLES
    root,      \* the json::Object the path API is called on
    ncalls,    \* number of path API calls made so far
    call,      \* the last path API call: its arguments, result and pre-state
    num,       \* the last integer conversion or integer deserialization
    des,       \* the last serialization or deserialization of an aggregate or container
    raw,       \* the last opaque transcoding of raw memory
    scan,      \* the operator>> in progress: its stream and its position in the code
    fmt,       \* the last formatting of a number_t: its arguments and the text
    io         \* the text being printed or parsed, and the trees on both sides

vars == <<root, ncalls, call, num, des, raw, scan, fmt, io>>
notPathVars == <<num, des, raw, scan, fmt, io>>
notNumVars == <<root, ncalls, call, des, raw, scan, fmt, io>>
notDesVars == <<root, ncalls, call, num, raw, scan, fmt, io>>
notRawVars == <<root, ncalls, call, num, des, scan, fmt, io>>
notScanVars == <<root, ncalls, call, num, des, raw, fmt, io>>
notFmtVars == <<root, ncalls, call, num, des, raw, scan, io>>
notIoVars == <<root, ncalls, call, num, des, raw, scan, fmt>>

(***************************************************************************)
(* Bounds of the model.                                                    *)
(***************************************************************************)
MaxPathLen == 5
MaxCalls == 1

(***************************************************************************)
(* Fixed-width integers.  TLC's integers are 32 bits wide, so a native     *)
(* integer value is written in two's complement as five limbs of 16 bits,  *)
(* most significant first; the first limb is the sign extension (0 or      *)
(* 65535), which lets one form hold every value of all eight integer types *)
(* (-2^63 .. 2^64-1) and makes the order of the values the order of the    *)
(* limbs.                                                                  *)
(***************************************************************************)
Limb == 2^16
LimbMax == Limb - 1

IntTypes == {"Int64", "Int32", "Int16", "Int8", "UInt64", "UInt32", "UInt16", "UInt8"}

\* std::is_signed<T>::value
is_signed(T) == T \in {"Int64", "Int32", "Int16", "Int8"}

\* sizeof(T) in bytes
sizeof(T) == CASE T \in {"Int64", "UInt64"} -> 8
               [] T \in {"Int32", "UInt32"} -> 4
               [] T \in {"Int16", "UInt16"} -> 2
               [] T \in {"Int8", "UInt8"}   -> 1

\* the value of a small model integer n (|n| < 2^31) as limbs
Wide(n) ==
    IF n >= 0 THEN <<0, 0, 0, n \div Limb, n % Limb>>
    ELSE LET p == -(n + 1)
         IN  <<LimbMax, LimbMax, LimbMax, LimbMax - (p \div Limb), LimbMax - (p % Limb)>>

\* a < b on limb values: the first limb is the sign, the rest compare as digits
RECURSIVE LexLess(_, _, _)
LexLess(a, b, i) ==
    IF i > Len(a) THEN FALSE
    ELSE IF a[i] # b[i] THEN a[i] < b[i]
    ELSE LexLess(a, b, i + 1)

Less(a, b) ==
    IF a[1] # b[1] THEN a[1] > b[1]   \* 65535 is the negative sign
    ELSE LexLess(a, b, 2)

LessEq(a, b) == a = b \/ Less(a, b)

\* value + 1 and value - 1 on limbs (i is the limb the carry has reached)
RECURSIVE Carry(_, _, _)
Carry(value, i, up) ==
    IF i = 0 THEN value
    ELSE IF up
         THEN IF value[i] = LimbMax THEN Carry([value EXCEPT ![i] = 0], i - 1, up)
              ELSE [value EXCEPT ![i] = @ + 1]
         ELSE IF value[i] = 0 THEN Carry([value EXCEPT ![i] = LimbMax], i - 1, up)
              ELSE [value EXCEPT ![i] = @ - 1]

Inc(value) == Carry(value, 5, TRUE)
Dec(value) == Carry(value, 5, FALSE)

\* the conversion T(value) of C++: the low sizeof(T) bytes of the value, read
\* with T's signedness (modular for unsigned T, two's complement for signed T)
Cast(T, value) ==
    LET low == CASE sizeof(T) = 8 -> <<value[2], value[3], value[4], value[5]>>
                 [] sizeof(T) = 4 -> <<value[4], value[5]>>
                 [] sizeof(T) = 2 -> <<value[5]>>
                 [] sizeof(T) = 1 -> <<value[5] % 256>>
        top == IF sizeof(T) = 1 THEN 128 ELSE 32768
        negative == is_signed(T) /\ low[1] >= top
        fill == IF negative THEN LimbMax ELSE 0
        first == IF sizeof(T) = 1 /\ negative THEN low[1] + 65280 ELSE low[1]
    IN  [i \in 1..5 |->
            IF i <= 5 - Len(low) THEN fill
            ELSE IF i = 5 - Len(low) + 1 THEN first
            ELSE low[i - (5 - Len(low))]]

\* std::numeric_limits<T>::max()
numeric_limits_max(T) ==
    CASE T = "Int64"  -> <<0, 32767, LimbMax, LimbMax, LimbMax>>
      [] T = "Int32"  -> <<0, 0, 0, 32767, LimbMax>>
      [] T = "Int16"  -> <<0, 0, 0, 0, 32767>>
      [] T = "Int8"   -> <<0, 0, 0, 0, 127>>
      [] T = "UInt64" -> <<0, LimbMax, LimbMax, LimbMax, LimbMax>>
      [] T = "UInt32" -> <<0, 0, 0, LimbMax, LimbMax>>
      [] T = "UInt16" -> <<0, 0, 0, 0, LimbMax>>
      [] T = "UInt8"  -> <<0, 0, 0, 0, 255>>

\* std::numeric_limits<T>::min()
numeric_limits_min(T) ==
    CASE T = "Int64"  -> <<LimbMax, 32768, 0, 0, 0>>
      [] T = "Int32"  -> <<LimbMax, LimbMax, LimbMax, 32768, 0>>
      [] T = "Int16"  -> <<LimbMax, LimbMax, LimbMax, LimbMax, 32768>>
      [] T = "Int8"   -> <<LimbMax, LimbMax, LimbMax, LimbMax, 65408>>
      [] OTHER        -> <<0, 0, 0, 0, 0>>

(***************************************************************************)
(* json::uInt and json::Int (src/json.hpp:145-262): the union holds 64     *)
(* bits; a signed constructor stores the value sign-extended through i64,  *)
(* an unsigned one zero-extended through u64.  The accessors read the low  *)
(* bytes of the union with their own type (little-endian layout).          *)
(***************************************************************************)
\* the 64 bits of the union after uInt(value) for a value of type T
uInt(T, value) == <<value[2], value[3], value[4], value[5]>>

\* Int(value) for a value of native type T
json_Int(T, value) == [u |-> uInt(T, value), type |-> T]

\* Int::i64(), Int::u64(), ... : the union read as type T
Int_as(i, T) == Cast(T, <<0>> \o i.u)

(***************************************************************************)
(* detail::ClampedIntegerConverter<T,F> and clamped_integer_convert        *)
(* (src/include/json_serial.hpp:44-173; the same text is in                *)
(* src/Serializer.hpp:377-504).  The partial specializations are selected  *)
(* by (is_signed<T>, is_signed<F>, sizeof(T) == sizeof(F),                 *)
(* sizeof(T) < sizeof(F)); a combination with no specialization falls to   *)
(* the primary template, which is the plain conversion T(value).           *)
(***************************************************************************)
ClampedIntegerConverter(T, F, value) ==
    LET Ts == is_signed(T)
        Fs == is_signed(F)
        eq == sizeof(T) = sizeof(F)
        lt == sizeof(T) < sizeof(F)
        maxT == numeric_limits_max(T)
        minT == numeric_limits_min(T)
    IN  CASE T = F -> value                                      \* T su == T su
          [] T # F /\ Ts = Fs /\ eq /\ ~lt -> Cast(T, value)     \* T su == F su
          [] Ts /\ ~Fs /\ eq /\ ~lt ->                           \* T s == F u
                IF LessEq(Cast(F, maxT), value) THEN maxT ELSE Cast(T, value)
          [] ~Ts /\ Fs /\ eq /\ ~lt ->                           \* T u == F s
                IF LessEq(value, Cast(F, minT)) THEN minT ELSE Cast(T, value)
          [] Ts /\ ~Fs /\ ~eq /\ lt ->                           \* T s < F u
                IF LessEq(Cast(F, maxT), value) THEN maxT ELSE Cast(T, value)
          [] ~Ts /\ Fs /\ ~eq /\ lt ->                           \* T u < F s
                IF LessEq(Cast(F, maxT), value) THEN maxT
                ELSE IF LessEq(value, Cast(F, minT)) THEN minT
                ELSE Cast(T, value)
          [] Ts /\ Fs /\ ~eq /\ lt ->                            \* T s < F s
                IF LessEq(Cast(F, maxT), value) THEN maxT
                ELSE IF LessEq(value, Cast(F, minT)) THEN minT
                ELSE Cast(T, value)
          [] Ts /\ ~Fs /\ ~eq /\ ~lt -> Cast(T, value)           \* T s > F u
          [] ~Ts /\ Fs /\ ~eq /\ ~lt ->                          \* T u > F s
                IF LessEq(numeric_limits_max(F), value)
                THEN Cast(T, numeric_limits_max(F))
                ELSE IF LessEq(value, Cast(F, minT)) THEN minT
                ELSE Cast(T, value)
          [] OTHER -> Cast(T, value)                             \* primary template

clamped_integer_convert(T, F, value) == ClampedIntegerConverter(T, F, value)

(***************************************************************************)
(* Nodes of the value tree (src/json.hpp, classes Null .. Object).          *)
(***************************************************************************)
Null == [kind |-> "Null"]
Boolean(b) == [kind |-> "Boolean", boolean |-> b]
Integer(i) == [kind |-> "Integer", integer |-> i]
Number(n) == [kind |-> "Number", number |-> n]
String(s) == [kind |-> "String", string |-> s]
Array(elems) == [kind |-> "Array", elements |-> elems]
Object(ents) == [kind |-> "Object", entries |-> ents]

\* a null base_ptr_t / a nullptr result
nullptr == [kind |-> "nullptr"]

\* std::unordered_map with no entry
NoEntries == <<>>

\* m_entries.insert / assignment through an iterator: key k now maps to node n
Put(ents, k, n) == [x \in (DOMAIN ents) \cup {k} |-> IF x = k THEN n ELSE ents[x]]

\* an insertion that replaces the node of a key already present
insert_or_assign(ents, k, n) ==
    [x \in (DOMAIN ents) \cup {k} |-> IF x = k THEN n ELSE ents[x]]

\* m_entries.insert(object_entry_t(k, n)): std::unordered_map::insert leaves
\* the map as it is when the key is present
insert(ents, k, n) == IF k \in DOMAIN ents THEN ents ELSE Put(ents, k, n)

\* Object(Entry (&& entries_)[size_]) (1046-1051): the entries are inserted in
\* the order of the list, from the i-th on
RECURSIVE insert_entries(_, _, _)
insert_entries(entries_, i, ents) ==
    IF i > Len(entries_) THEN ents
    ELSE insert_entries(entries_, i + 1, insert(ents, entries_[i].key, entries_[i].value))

\* m_entries.erase(it)
Erase(ents, k) == [x \in (DOMAIN ents) \ {k} |-> ents[x]]

(***************************************************************************)
(* number_t (double) values.  A finite double is written by its exact      *)
(* decimal expansion: a sign, the integer part and the digits after the    *)
(* point (no trailing zero).  The model draws only values whose expansion  *)
(* is short (small dyadic fractions), for which the arithmetic of the      *)
(* source on doubles is exact.                                             *)
(***************************************************************************)
Double(negative, integer, fraction) ==
    [negative |-> negative, integer |-> integer, fraction |-> fraction]

\* sign_ * std::numeric_limits<double>::infinity()
infinity(negative) == [negative |-> negative, infinite |-> TRUE]
isinf(x) == "infinite" \in DOMAIN x

\* round(x): to the nearest integer, halves away from zero; the result as limbs
round(x) ==
    LET magnitude == x.integer + (IF x.fraction # <<>> /\ x.fraction[1] >= 5 THEN 1 ELSE 0)
    IN  Wide(IF x.negative THEN -magnitude ELSE magnitude)

(***************************************************************************)
(* deserialize_integer<T> (src/include/json_serial.hpp:482-515, and         *)
(* src/Serializer.hpp:506-539): the returned bool and the destination      *)
(* after the call.  T(round(x)) is defined only for a rounded value in T's *)
(* range; the model never calls it outside of it (result "undefined").     *)
(***************************************************************************)
undefined == <<>>

deserialize_integer(T, value_, serial) ==
    IF serial = nullptr THEN [ok |-> FALSE, value |-> value_]
    ELSE CASE serial.kind = "Integer" ->
                IF is_signed(T)
                THEN [ok |-> TRUE,
                      value |-> clamped_integer_convert(T, "Int64", Int_as(serial.integer, "Int64"))]
                ELSE [ok |-> TRUE,
                      value |-> clamped_integer_convert(T, "UInt64", Int_as(serial.integer, "UInt64"))]
           [] serial.kind = "Number" ->
                LET r == round(serial.number)
                IN  [ok |-> TRUE,
                     value |-> IF LessEq(numeric_limits_min(T), r) /\ LessEq(r, numeric_limits_max(T))
                               THEN r ELSE undefined]
           [] serial.kind = "Boolean" ->
                [ok |-> TRUE, value |-> IF serial.boolean THEN Wide(1) ELSE Wide(0)]
           [] serial.kind = "Null" -> [ok |-> TRUE, value |-> Wide(0)]
           [] OTHER -> [ok |-> FALSE, value |-> value_]

(***************************************************************************)
(* std::string helpers, 0-based as in the source.                          *)
(***************************************************************************)
\* std::min(id.find('.', from), id.size())
RECURSIVE find_dot(_, _)
find_dot(id, from) ==
    IF from >= Len(id) THEN Len(id)
    ELSE IF id[from + 1] = "." THEN from
    ELSE find_dot(id, from + 1)

\* id.substr(index_0, index_1 - index_0)
substr(id, index_0, index_1) == SubSeq(id, index_0 + 1, index_1)

(***************************************************************************)
(* Object::get (src/json.hpp:1058-1082): the node at the path, or nullptr. *)
(***************************************************************************)
RECURSIVE get_walk(_, _, _)
get_walk(ents, id, index_0) ==
    LET index_1 == find_dot(id, index_0)
        cur_id  == substr(id, index_0, index_1)
        next_0  == index_1 + 1
    IN  IF cur_id \notin DOMAIN ents THEN nullptr
        ELSE IF next_0 < Len(id)
             THEN IF ents[cur_id].kind # "Object" THEN nullptr
                  ELSE get_walk(ents[cur_id].entries, id, next_0)
             ELSE ents[cur_id]

get(obj, id) == get_walk(obj.entries, id, 0)

\* a get<C> that forgets to compare the type tag
get_C_untyped(obj, id, C) == get(obj, id)

\* Object::get<C> (src/json.hpp:1128-1146)
get_C(obj, id, C) ==
    LET base_ptr == get(obj, id)
    IN  IF base_ptr = nullptr \/ base_ptr.kind # C THEN nullptr ELSE base_ptr

(***************************************************************************)
(* Object::_set (src/json.hpp:982-1033).  The walk of the source is a loop *)
(* over the containers on the path; here each container is one level of    *)
(* the recursion.  The result is the container after the call and the      *)
(* returned slot (the node the returned base_ptr_t* points to, or nullptr).*)
(* A container changed before a failing return stays changed.              *)
(***************************************************************************)
RECURSIVE set_walk(_, _, _, _, _)
set_walk(override_, ents, id, index_0, value) ==
    LET index_1 == find_dot(id, index_0)
        cur_id  == substr(id, index_0, index_1)
        next_0  == index_1 + 1
    IN  IF cur_id \notin DOMAIN ents
        THEN IF next_0 < Len(id)
             THEN \* insert a fresh Object and keep walking inside it
                  LET sub == set_walk(override_, NoEntries, id, next_0, value)
                  IN  [entries |-> Put(ents, cur_id, Object(sub.entries)),
                       slot |-> sub.slot]
             ELSE [entries |-> Put(ents, cur_id, value), slot |-> value]
        ELSE IF next_0 < Len(id)
             THEN IF ents[cur_id].kind # "Object"
                  THEN IF override_
                       THEN LET sub == set_walk(override_, NoEntries, id, next_0, value)
                            IN  [entries |-> Put(ents, cur_id, Object(sub.entries)),
                                 slot |-> sub.slot]
                       ELSE [entries |-> ents, slot |-> nullptr]
                  ELSE LET sub == set_walk(override_, ents[cur_id].entries, id, next_0, value)
                       IN  [entries |-> Put(ents, cur_id, Object(sub.entries)),
                            slot |-> sub.slot]
             ELSE [entries |-> Put(ents, cur_id, value), slot |-> value]

\* a _set that, like unordered_map::insert, keeps the node of an existing slot
_set_insert_only(override_, obj, id, value) ==
    IF get(obj, id) # nullptr
    THEN [entries |-> obj.entries, slot |-> get(obj, id)]
    ELSE set_walk(override_, obj.entries, id, 0, value)

_set(override_, obj, id, value) == set_walk(override_, obj.entries, id, 0, value)

\* a set that passes override_ = false
set_no_override(obj, id, value) == _set(FALSE, obj, id, value)

\* Object::set (src/json.hpp:1170-1175)
set(obj, id, value) == _set(TRUE, obj, id, value)

\* a set_safe that passes override_ = true
set_safe_overriding(obj, id, value) == _set(TRUE, obj, id, value)

\* Object::set_safe (src/json.hpp:1178-1183)
set_safe(obj, id, value) == _set(FALSE, obj, id, value)

(***************************************************************************)
(* Object::remove (src/json.hpp:1185-1211): the container after the call   *)
(* and the returned bool.                                                  *)
(***************************************************************************)
RECURSIVE remove_walk(_, _, _)
remove_walk(ents, id, index_0) ==
    LET index_1 == find_dot(id, index_0)
        cur_id  == substr(id, index_0, index_1)
        next_0  == index_1 + 1
    IN  IF cur_id \notin DOMAIN ents THEN [entries |-> ents, ok |-> FALSE]
        ELSE IF next_0 < Len(id)
             THEN IF ents[cur_id].kind # "Object"
                  THEN [entries |-> ents, ok |-> FALSE]
                  ELSE LET sub == remove_walk(ents[cur_id].entries, id, next_0)
                       IN  [entries |-> Put(ents, cur_id, Object(sub.entries)),
                            ok |-> sub.ok]
             ELSE [entries |-> Erase(ents, cur_id), ok |-> TRUE]

\* a remove that reports success whatever the walk found
remove_always_true(obj, id) ==
    [entries |-> remove_walk(obj.entries, id, 0).entries, ok |-> TRUE]

\* a remove that erases the whole first entry of the path when the walk succeeds
remove_first_entry(obj, id) ==
    IF remove_walk(obj.entries, id, 0).ok
    THEN [entries |-> Erase(obj.entries, substr(id, 0, find_dot(id, 0))), ok |-> TRUE]
    ELSE [entries |-> obj.entries, ok |-> FALSE]

remove(obj, id) == remove_walk(obj.entries, id, 0)

(***************************************************************************)
(* Deserialization of an aggregate through its Descriptors                 *)
(* (src/include/json_serial.hpp:358-411).  The aggregate of the model is   *)
(* the Player of the header's documentation (lines 300-317) with three     *)
(* described members: a string_t, an int32_t and a boolean_t; an object of *)
(* the aggregate is the tuple of its members' values.                      *)
(***************************************************************************)
Descriptors == <<[id |-> <<"n">>, type |-> "string_t"],
                 [id |-> <<"c">>, type |-> "Int32"],
                 [id |-> <<"a">>, type |-> "boolean_t"]>>

\* deserialize(boolean_t &, ...) (434-441)
deserialize_boolean(value_, serial) ==
    IF serial = nullptr \/ serial.kind # "Boolean" THEN [ok |-> FALSE, value |-> value_]
    ELSE [ok |-> TRUE, value |-> serial.boolean]

\* deserialize(string_t &, ...) (599-607)
deserialize_string(string_, serial) ==
    IF serial = nullptr \/ serial.kind # "String" THEN [ok |-> FALSE, value |-> string_]
    ELSE [ok |-> TRUE, value |-> serial.string]

\* the overload of deserialize chosen by the member's type
deserialize_member(type, value_, serial) ==
    CASE type = "boolean_t" -> deserialize_boolean(value_, serial)
      [] type = "string_t" -> deserialize_string(value_, serial)
      [] OTHER -> deserialize_integer(type, value_, serial)

\* a deserializer that resets the member of a missing key
ObjectDeserializer_resetting(member_desc, target, jobj) ==
    LET jserial == get(jobj, member_desc.id)
    IN  IF jserial # nullptr
        THEN deserialize_member(member_desc.type, target, jserial).value
        ELSE IF member_desc.type = "boolean_t" THEN FALSE
             ELSE IF member_desc.type = "string_t" THEN <<>> ELSE Wide(0)

\* detail::ObjectDeserializer::operator() (358-389): the member after the call;
\* the bool returned by the member's deserialize is dropped
ObjectDeserializer(member_desc, target, jobj) ==
    LET jserial == get(jobj, member_desc.id)
    IN  IF jserial # nullptr
        THEN deserialize_member(member_desc.type, target, jserial).value
        ELSE target

\* deserialize(C &, base_ptr_t const &, ...) (403-411)
deserialize(object, serial) ==
    IF serial = nullptr \/ serial.kind # "Object" THEN [ok |-> FALSE, value |-> object]
    ELSE [ok |-> TRUE,
          value |-> [i \in DOMAIN Descriptors |->
                        ObjectDeserializer(Descriptors[i], object[i], serial)]]

(***************************************************************************)
(* Serialization of an aggregate through its Descriptors                   *)
(* (src/include/json_serial.hpp:333-401): every described member is        *)
(* serialized by the overload of its type and set under its id, in the     *)
(* order of the tuple.                                                     *)
(***************************************************************************)
\* a serialize that stores an integer member through int8_t
serialize_member_narrow(type, value_) ==
    CASE type = "boolean_t" -> Boolean(value_)
      [] type = "string_t" -> String(value_)
      [] OTHER -> Integer(json_Int("Int8", Cast("Int8", value_)))

\* serialize(boolean_t const, ...) (429-430), serialize(int32_t const, ...)
\* (525-526), serialize(string_t const &, ...) (596-597): make_base_ptr of the
\* value
serialize_member(type, value_) ==
    CASE type = "boolean_t" -> Boolean(value_)
      [] type = "string_t" -> String(value_)
      [] OTHER -> Integer(json_Int(type, value_))

\* detail::ObjectSerializer::operator() (333-356): jobj after the call
ObjectSerializer(member_desc, target, jobj) ==
    Object(set(jobj, member_desc.id, serialize_member(member_desc.type, target)).entries)

\* json::for_each over the descriptors from the i-th on
RECURSIVE serialize_each(_, _, _)
serialize_each(object, serial, i) ==
    IF i > Len(Descriptors) THEN serial
    ELSE serialize_each(object, ObjectSerializer(Descriptors[i], object[i], serial), i + 1)

\* serialize(C const &, ...) (393-401)
serialize(object) == serialize_each(object, Object(NoEntries), 1)

(***************************************************************************)
(* The opaque transcoding of raw memory (src/Serializer.hpp:19-102,        *)
(* src/include/json_serial.hpp:175-190).  An object is the sequence of its *)
(* sizeof(T) bytes in memory order; little_endian is what                  *)
(* is_little_endian() returns on the machine.                              *)
(***************************************************************************)
Byte == 0..255

HexChars == <<"0", "1", "2", "3", "4", "5", "6", "7", "8", "9", "a", "b", "c", "d", "e", "f">>

\* hex_char(uint8_t value) (src/Serializer.hpp:26-35)
hex_char(value) ==
    IF value <= 9 THEN HexChars[value + 1]
    ELSE IF value <= 15 THEN HexChars[value + 1]
    ELSE "0"

\* hex_value(char hex_char) (src/Serializer.hpp:37-46)
hex_value(ch) ==
    IF \E v \in DOMAIN HexChars : HexChars[v] = ch
    THEN (CHOOSE v \in DOMAIN HexChars : HexChars[v] = ch) - 1
    ELSE 0

\* the index k of the byte written at place i (0-based) of the text
byte_index(size, i, little_endian) == IF little_endian THEN size - i - 1 ELSE i

\* data_to_hex_string (src/Serializer.hpp:48-74): two characters per byte,
\* data_bytes[k] / 0x0F and data_bytes[k] % 0x0F
data_to_hex_string(data, little_endian) ==
    [c \in 1..(2 * Len(data)) |->
        LET i == (c - 1) \div 2
            byte == data[byte_index(Len(data), i, little_endian) + 1]
        IN  IF (c - 1) % 2 = 0 THEN hex_char(byte \div 15) ELSE hex_char(byte % 15)]

\* hex_string_to_data<T> (src/Serializer.hpp:76-102) for sizeof(T) = size and
\* a text of 2 * size characters; the sum is stored into a uint8_t
hex_string_to_data(hex_string, size, little_endian) ==
    [b \in 1..size |->
        LET i == byte_index(size, b - 1, little_endian)
        IN  (hex_value(hex_string[2 * i + 1]) * 15 + hex_value(hex_string[2 * i + 2])) % 256]

\* serialize_raw (src/include/json_serial.hpp:175-180)
serialize_raw(object, little_endian) == String(data_to_hex_string(object, little_endian))

\* deserialize_raw (src/include/json_serial.hpp:182-190)
deserialize_raw(object, serial, little_endian) ==
    IF serial = nullptr \/ serial.kind # "String" THEN [ok |-> FALSE, value |-> object]
    ELSE [ok |-> TRUE, value |-> hex_string_to_data(serial.string, Len(object), little_endian)]

(***************************************************************************)
(* Decimal text of native integers: what std::ostream << prints for an     *)
(* integer type and what std::atoll reads.                                 *)
(***************************************************************************)
DigitChars == <<"0", "1", "2", "3", "4", "5", "6", "7", "8", "9">>

isdigit(ch) == \E d \in DOMAIN DigitChars : DigitChars[d] = ch

\* ch - '0' for a digit
DigitOf(ch) == (CHOOSE d \in DOMAIN DigitChars : DigitChars[d] = ch) - 1

\* char('0' + d) for 0 <= d <= 9
CharOf(d) == DigitChars[d + 1]

\* std::isspace in the "C" locale (the vertical tab is left out)
isspace(ch) == ch \in {" ", "\t", "\n", "\r", "\f"}

\* -value for a negative value
Negate(value) == Inc([i \in 1..5 |-> LimbMax - value[i]])

\* a non-negative value divided by ten: quotient and remainder
DivMod10(value) ==
    LET step[i \in 0..5] ==
            IF i = 0 THEN [q |-> <<>>, r |-> 0]
            ELSE LET cur == step[i - 1].r * Limb + value[i]
                 IN  [q |-> Append(step[i - 1].q, cur \div 10), r |-> cur % 10]
    IN  step[5]

RECURSIVE DecimalDigits(_)
DecimalDigits(value) ==
    IF value = Wide(0) THEN <<>>
    ELSE LET d == DivMod10(value)
         IN  Append(DecimalDigits(d.q), CharOf(d.r))

\* ost << v for v of an integer type other than char
ostream_integer(value) ==
    IF value = Wide(0) THEN <<"0">>
    ELSE IF value[1] = LimbMax THEN <<"-">> \o DecimalDigits(Negate(value))
    ELSE DecimalDigits(value)

\* operator<<(std::ostream &, Int const &) (src/json.hpp:264-280): the one-byte
\* types are printed through uint16_t
ostream_Int(i) ==
    CASE i.type = "Int8" -> ostream_integer(Cast("UInt16", Int_as(i, "Int8")))
      [] i.type = "UInt8" -> ostream_integer(Cast("UInt16", Int_as(i, "UInt8")))
      [] OTHER -> ostream_integer(Int_as(i, i.type))

\* value * 10 + d on limbs; the first limb takes what spills over 64 bits
MulAdd10(value, d) ==
    LET step[i \in 1..6] ==
            IF i = 6 THEN [carry |-> d, limbs |-> <<>>]
            ELSE LET cur == value[i] * 10 + step[i + 1].carry
                 IN  [carry |-> cur \div Limb, limbs |-> <<cur % Limb>> \o step[i + 1].limbs]
    IN  step[1].limbs

\* the magnitude read from the digits that start the text
RECURSIVE atoll_digits(_, _, _)
atoll_digits(buffer, i, acc) ==
    IF i > Len(buffer) \/ ~isdigit(buffer[i]) THEN acc
    ELSE IF acc = undefined THEN undefined
    ELSE LET next == MulAdd10(acc, DigitOf(buffer[i]))
         IN  atoll_digits(buffer, i + 1,
                          IF next[1] # 0 \/ Less(Inc(numeric_limits_max("Int64")), next)
                          THEN undefined ELSE next)

\* std::atoll: an optional sign and the digits after it; the result is
\* undefined when the value does not fit in long long
atoll(buffer) ==
    LET signed == buffer # <<>> /\ buffer[1] \in {"+", "-"}
        negative == buffer # <<>> /\ buffer[1] = "-"
        magnitude == atoll_digits(buffer, IF signed THEN 2 ELSE 1, Wide(0))
    IN  IF magnitude = undefined THEN undefined
        ELSE IF negative
             THEN IF magnitude = Wide(0) THEN magnitude ELSE Negate(magnitude)
             ELSE IF Less(numeric_limits_max("Int64"), magnitude) THEN undefined
             ELSE magnitude

(***************************************************************************)
(* double_to_string (src/json.hpp:398-596) for a value that is zero or     *)
(* lies in [min_sci_value, max_sci_value) = [1e-2, 1e+4), where the text   *)
(* is plain decimal; outside of it the source scales the value with        *)
(* log10 and pow, which the decimal form of the model does not follow      *)
(* (result "undefined").  The buffer keeps the indices of the source.      *)
(***************************************************************************)
c_min_integer_index == 1
c_max_integer_index == 16
c_min_fraction_index == 18
c_max_fraction_index == 33
c_max_precision == 16

Min(a, b) == IF a < b THEN a ELSE b
Max(a, b) == IF a > b THEN a ELSE b

\* uint64_t(integer / 1e+k) % 10 for an integer part below 2^31
IntegerDigit(integer, k) == IF k > 9 THEN 0 ELSE (integer \div 10^k) % 10

\* uint64_t(fraction * 1e+k) % 10: the k-th digit after the point
FractionDigit(fraction, k) == IF k <= Len(fraction) THEN fraction[k] ELSE 0

\* the initializer of buffer (lines 455-496): the power 1e+11 is not among
\* the fraction digits
InitialBuffer(x) ==
    [c \in 0..39 |->
        IF c = 0 THEN " "
        ELSE IF c <= c_max_integer_index THEN CharOf(IntegerDigit(x.integer, c_max_integer_index - c))
        ELSE IF c = 17 THEN "."
        ELSE IF c <= 27 THEN CharOf(FractionDigit(x.fraction, c - 17))
        ELSE IF c <= c_max_fraction_index THEN CharOf(FractionDigit(x.fraction, c - 16))
        ELSE "\\0"]

\* for(; i < c_max_integer_index && buffer[i] == '0'; ++i);
RECURSIVE skip_zeros_up(_, _)
skip_zeros_up(buffer, i) ==
    IF i < c_max_integer_index /\ buffer[i] = "0" THEN skip_zeros_up(buffer, i + 1) ELSE i

\* for(; j > low && buffer[j] == '0'; --j);
RECURSIVE skip_zeros_down(_, _, _)
skip_zeros_down(buffer, j, low) ==
    IF j > low /\ buffer[j] = "0" THEN skip_zeros_down(buffer, j - 1, low) ELSE j

\* for(nines_i = j; nines_i >= c_min_fraction_index && buffer[nines_i] == '9'; --nines_i);
RECURSIVE skip_nines_down(_, _)
skip_nines_down(buffer, nines_i) ==
    IF nines_i >= c_min_fraction_index /\ buffer[nines_i] = "9"
    THEN skip_nines_down(buffer, nines_i - 1) ELSE nines_i

\* int(chr - '0') for the characters the buffer holds at the indices rounded
CharValue(chr) == IF chr = " " THEN -16 ELSE DigitOf(chr)

\* "rounding right to zeros" (lines 518-529)
RECURSIVE round_to_zeros(_, _, _, _)
round_to_zeros(buffer, j, precision_index, carry) ==
    IF j >= precision_index
    THEN LET digit == CharValue(buffer[j]) + carry
         IN  round_to_zeros([buffer EXCEPT ![j] = "0"], j - 1, precision_index,
                            IF digit >= 5 THEN 1 ELSE 0)
    ELSE [buffer |-> buffer, j |-> j, carry |-> carry]

\* "continue rounding" (lines 530-545 for the fraction, 546-568 for the integer)
RECURSIVE round_carry(_, _, _, _)
round_carry(buffer, k, low, carry) ==
    IF carry > 0 /\ k >= low
    THEN LET digit == CharValue(buffer[k]) + carry
         IN  IF digit > 9
             THEN round_carry([buffer EXCEPT ![k] = "0"], k - 1, low, 1)
             ELSE round_carry([buffer EXCEPT ![k] = IF digit >= 0 THEN CharOf(digit) ELSE "!"],
                              k - 1, low, 0)
    ELSE [buffer |-> buffer, k |-> k, carry |-> carry]

double_to_string(rhs, precision_0) ==
    LET precision_1 == IF precision_0 > c_max_precision THEN c_max_precision ELSE precision_0
        negative == rhs.negative
        plain == rhs.integer < 10000
                 /\ (rhs.integer > 0 \/ FractionDigit(rhs.fraction, 1) > 0
                                     \/ FractionDigit(rhs.fraction, 2) > 0)
        buffer_0 == InitialBuffer(rhs)
        i_0 == skip_zeros_up(buffer_0, c_min_integer_index)
        \* trim the rightmost zeros, round the rightmost nines
        j_0 == IF precision_1 < 0
               THEN skip_zeros_down(buffer_0, c_max_fraction_index, c_min_fraction_index)
               ELSE c_max_fraction_index
        nines_i == skip_nines_down(buffer_0, j_0)
        precision_ == IF precision_1 < 0 /\ j_0 = c_max_fraction_index /\ nines_i < j_0
                      THEN nines_i - c_min_fraction_index + 1
                      ELSE precision_1
        \* round to precision
        precision_index == c_min_fraction_index + Max(Min(precision_, c_max_precision), 0)
        j_1 == skip_zeros_down(buffer_0, j_0, precision_index)
        r_0 == round_to_zeros(buffer_0, j_1, precision_index, 0)
        r_1 == round_carry(r_0.buffer, r_0.j, c_min_fraction_index, r_0.carry)
        r_2 == IF r_1.carry > 0
               THEN round_carry(r_1.buffer, c_max_integer_index,
                                Min(i_0 - 1, c_min_integer_index), r_1.carry)
               ELSE [buffer |-> r_1.buffer, k |-> i_0, carry |-> 0]
        rounded == precision_ >= 0
        buffer_1 == IF rounded THEN r_2.buffer ELSE buffer_0
        i_1 == IF rounded /\ r_1.carry > 0 /\ r_2.k < i_0 - 1 THEN r_2.k + 1 ELSE i_0
        j_2 == IF rounded THEN r_0.j ELSE j_0
        \* negative sign
        i_2 == IF negative THEN i_1 - 1 ELSE i_1
        buffer_2 == IF negative THEN [buffer_1 EXCEPT ![i_2] = "-"] ELSE buffer_1
        \* 0 precision => remove decimal point
        j_3 == IF precision_ = 0 THEN j_2 - 1 ELSE j_2
    IN  IF isinf(rhs)
        THEN (IF negative THEN <<"-">> ELSE <<>>) \o <<"9", "e", "+", "9", "9", "9">>
        ELSE IF rhs.integer = 0 /\ rhs.fraction = <<>> THEN <<"0", ".", "0">>
        ELSE IF ~plain THEN undefined
        ELSE [n \in 1..(j_3 - i_2 + 1) |-> buffer_2[i_2 + n - 1]]

(***************************************************************************)
(* std::atof: sign, digits, point, digits, exponent.  The result is the    *)
(* decimal value of the text, which is the double read whenever that value *)
(* is a double; the model reads no other text.  -0.0 equals 0.0.           *)
(***************************************************************************)
RECURSIVE digits_end(_, _)
digits_end(buffer, i) ==
    IF i <= Len(buffer) /\ isdigit(buffer[i]) THEN digits_end(buffer, i + 1) ELSE i

RECURSIVE DigitsToNat(_)
DigitsToNat(digits) ==
    IF digits = <<>> THEN 0
    ELSE DigitsToNat(SubSeq(digits, 1, Len(digits) - 1)) * 10 + digits[Len(digits)]

RECURSIVE StripZeros(_)
StripZeros(digits) ==
    IF digits # <<>> /\ digits[Len(digits)] = 0
    THEN StripZeros(SubSeq(digits, 1, Len(digits) - 1)) ELSE digits

Zeros(n) == [k \in 1..n |-> 0]

MaxExponent == 15
\* std::numeric_limits<double>::max_exponent10
max_exponent10 == 308

\* std::atof: the longest prefix of the buffer that is a number; a value too
\* large for a double gives HUGE_VAL with the sign of the text
atof(buffer) ==
    LET signed == buffer # <<>> /\ buffer[1] \in {"+", "-"}
        i_0 == IF signed THEN 2 ELSE 1
        i_1 == digits_end(buffer, i_0)
        point == i_1 <= Len(buffer) /\ buffer[i_1] = "."
        i_2 == IF point THEN i_1 + 1 ELSE i_1
        i_3 == digits_end(buffer, i_2)
        integer == [k \in 1..(i_1 - i_0) |-> DigitOf(buffer[i_0 + k - 1])]
        fraction == [k \in 1..(i_3 - i_2) |-> DigitOf(buffer[i_2 + k - 1])]
        exponent_mark == i_3 <= Len(buffer) /\ buffer[i_3] \in {"e", "E"}
        exponent_signed == exponent_mark /\ i_3 + 1 <= Len(buffer) /\ buffer[i_3 + 1] \in {"+", "-"}
        e_0 == IF exponent_signed THEN i_3 + 2 ELSE i_3 + 1
        e_1 == digits_end(buffer, e_0)
        magnitude == IF exponent_mark /\ e_1 > e_0
                     THEN DigitsToNat([k \in 1..(e_1 - e_0) |-> DigitOf(buffer[e_0 + k - 1])])
                     ELSE 0
        exponent == IF exponent_signed /\ buffer[i_3 + 1] = "-" THEN -magnitude ELSE magnitude
        all == integer \o fraction
        at == Len(integer) + exponent
        whole == IF at <= 0 THEN <<>>
                 ELSE IF at >= Len(all) THEN all \o Zeros(at - Len(all))
                 ELSE SubSeq(all, 1, at)
        part == IF at <= 0 THEN Zeros(-at) \o all
                ELSE IF at >= Len(all) THEN <<>>
                ELSE SubSeq(all, at + 1, Len(all))
        zero == \A k \in DOMAIN all : all[k] = 0
    IN  IF zero THEN Double(FALSE, 0, <<>>)
        ELSE IF exponent - Len(fraction) > max_exponent10
        THEN infinity(signed /\ buffer[1] = "-")
        ELSE IF magnitude > MaxExponent THEN undefined
        ELSE Double(signed /\ buffer[1] = "-", DigitsToNat(whole), StripZeros(part))

(***************************************************************************)
(* The printer (src/json.hpp:1264-1433).  A style holds the three globals  *)
(* value_spacing, padding and newline (lines 302-304; the empty text is    *)
(* the null pointer).  m_entries is a std::unordered_map, whose iteration  *)
(* order is the implementation's: the printer walks the keys in the order  *)
(* "order" lists them.                                                     *)
(***************************************************************************)
DefaultStyle == [value_spacing |-> <<" ">>, padding |-> <<" ", " ", " ">>, newline |-> <<"\n">>]
CompactStyle == [value_spacing |-> <<>>, padding |-> <<>>, newline |-> <<>>]

RECURSIVE print_padding(_, _)
print_padding(depth_, style) ==
    IF depth_ = 0 THEN <<>> ELSE style.padding \o print_padding(depth_ - 1, style)

print_newline(style) == style.newline

print_Null == <<"n", "u", "l", "l">>
print_Boolean(jboolean) ==
    IF jboolean.boolean THEN <<"t", "r", "u", "e">> ELSE <<"f", "a", "l", "s", "e">>
print_Integer(jinteger) == ostream_Int(jinteger.integer)
print_Number(jnumber) == double_to_string(jnumber.number, -1)
print_String(jstring) == <<"\"">> \o jstring.string \o <<"\"">>

\* the keys of an Object in iteration order
EntryKeys(ents, order) == SelectSeq(order, LAMBDA k : k \in DOMAIN ents)

RECURSIVE print_Base(_, _, _, _)
RECURSIVE print_Array(_, _, _, _, _)
RECURSIVE print_Object(_, _, _, _)
RECURSIVE print_elements(_, _, _, _, _, _, _)
RECURSIVE print_entries(_, _, _, _, _, _)

\* the loop of print(Array) from element n on; i counts the printed elements
print_elements(elements, n, i, new_line_, depth_, style, order) ==
    IF n > Len(elements) THEN [text |-> <<>>, i |-> i, new_line_ |-> new_line_]
    ELSE LET element == elements[n]
             size_ == Len(elements)
             size_l == IF size_ = 0 THEN 0 ELSE size_ - 1
         IN  IF element = nullptr
             THEN print_elements(elements, n + 1, i, new_line_, depth_, style, order)
             ELSE LET lead == CASE element.kind \in {"Array", "Object"} -> print_newline(style)
                                [] element.kind = "String" ->
                                        print_newline(style) \o print_padding(depth_ + 1, style)
                                [] OTHER -> <<>>
                      broke == new_line_ \/ element.kind \in {"Array", "Object", "String"}
                      rest == print_elements(elements, n + 1, i + 1, broke, depth_, style, order)
                  IN  [text |-> lead \o print_Base(element, depth_ + 1, style, order)
                                     \o (IF i < size_l THEN <<",", " ">> ELSE <<>>) \o rest.text,
                       i |-> rest.i, new_line_ |-> rest.new_line_]

\* print(std::ostream &, Array const &, size_t depth_, bool padding_) (1315-1359)
print_Array(jarray, depth_, padding_, style, order) ==
    LET body == print_elements(jarray.elements, 1, 0, FALSE, depth_, style, order)
        size_ == Len(jarray.elements)
    IN  (IF padding_ THEN print_padding(depth_, style) ELSE <<>>)
        \o <<"[">> \o body.text
        \o (IF body.new_line_ /\ padding_
            THEN (IF body.i > 0 THEN print_newline(style) ELSE <<>>)
                 \o (IF size_ > 0 THEN print_padding(depth_, style) ELSE <<>>)
            ELSE <<>>)
        \o <<"]">>

\* the loop of print(Object) from the n-th key on
print_entries(ents, keys, n, depth_, style, order) ==
    IF n > Len(keys) THEN <<>>
    ELSE LET value == ents[keys[n]]
             size_ == Len(keys)
             elements_ == value.elements
             first_type == IF Len(elements_) >= 1 THEN elements_[1].kind ELSE "Base"
             single_line_ == Len(elements_) = 0
                             \/ (Len(elements_) >= 1 /\ first_type \notin {"Array", "Object", "String"})
             printed ==
                CASE value.kind = "Array" ->
                        (IF ~single_line_ THEN print_newline(style) ELSE <<>>)
                        \o print_Array(value, depth_ + 1, ~single_line_, style, order)
                  [] value.kind = "Object" ->
                        (IF DOMAIN value.entries # {} THEN print_newline(style) ELSE <<>>)
                        \o print_Object(value, depth_ + 1, style, order)
                  [] OTHER -> print_Base(value, depth_ + 1, style, order)
         IN  print_newline(style) \o print_padding(depth_ + 1, style)
             \o <<"\"">> \o keys[n] \o <<"\"", ":">> \o style.value_spacing
             \o printed
             \o (IF n - 1 < size_ - 1 THEN <<",">> ELSE <<>>)
             \o print_entries(ents, keys, n + 1, depth_, style, order)

\* print(std::ostream &, Object const &, size_t depth_) (1361-1417)
print_Object(jobject, depth_, style, order) ==
    LET keys == EntryKeys(jobject.entries, order)
        size_ == Len(keys)
    IN  (IF size_ > 0 THEN print_padding(depth_, style) ELSE <<>>)
        \o <<"{">> \o print_entries(jobject.entries, keys, 1, depth_, style, order)
        \o (IF size_ > 0 THEN print_newline(style) \o print_padding(depth_, style) ELSE <<>>)
        \o <<"}">>

\* print(std::ostream &, Base const &, size_t depth_) (1419-1433)
print_Base(jbase, depth_, style, order) ==
    CASE jbase.kind = "Null" -> print_Null
      [] jbase.kind = "Boolean" -> print_Boolean(jbase)
      [] jbase.kind = "Integer" -> print_Integer(jbase)
      [] jbase.kind = "Number" -> print_Number(jbase)
      [] jbase.kind = "String" -> print_String(jbase)
      [] jbase.kind = "Object" -> print_Object(jbase, depth_, style, order)
      [] jbase.kind = "Array" -> print_Array(jbase, depth_, TRUE, style, order)
      [] OTHER -> <<>>

\* operator<<(std::ostream &, Base const &) (1435-1436)
print(jbase, style, order) == print_Base(jbase, 0, style, order)

(***************************************************************************)
(* The parser (src/json.hpp:1455-2065).  A std::istream is its text, the   *)
(* number of characters consumed and its eofbit and failbit (a read past   *)
(* the end sets both and stores nothing; while failbit is set reads do     *)
(* nothing).  A parse function yields ok = TRUE with the stream, the       *)
(* caller's ch and the parsed value, or ok = FALSE with the message of the *)
(* exception thrown.  A char variable that was never assigned holds        *)
(* whatever its stack slot held: io.uninitialized, which is either one of  *)
(* the characters the parser tests for or "indeterminate", a value that    *)
(* no test of the parser takes for a character.                            *)
(***************************************************************************)
istream(text) == [text |-> text, pos |-> 0, eof |-> FALSE, fail |-> FALSE]

indeterminate == io.uninitialized

Throw(what) == [ok |-> FALSE, error |-> what]

\* ist.read(&ch, 1)
read(ist, ch) ==
    IF ist.fail THEN [ist |-> ist, ch |-> ch]
    ELSE IF ist.pos < Len(ist.text)
         THEN [ist |-> [ist EXCEPT !.pos = @ + 1], ch |-> ist.text[ist.pos + 1]]
         ELSE [ist |-> [ist EXCEPT !.eof = TRUE, !.fail = TRUE], ch |-> ch]

\* ist.read(buffer, n): the characters stored
read_n(ist, n) ==
    LET count == IF ist.fail THEN 0 ELSE Min(n, Len(ist.text) - ist.pos)
    IN  [ist |-> [ist EXCEPT !.pos = @ + count, !.eof = @ \/ (~ist.fail /\ count < n),
                             !.fail = @ \/ count < n],
         chars |-> SubSeq(ist.text, ist.pos + 1, ist.pos + count)]

\* ist.putback('"') (2048): eofbit is cleared; the stream steps back over
\* the character just read unless failbit is set
putback(ist) ==
    IF ist.fail THEN [ist EXCEPT !.eof = FALSE]
    ELSE [ist EXCEPT !.pos = @ - 1, !.eof = FALSE]

\* the while loop of _skip_spaces
RECURSIVE skip_while_space(_, _)
skip_read(r) == skip_while_space(r.ist, r.ch)

skip_while_space(ist, ch) ==
    IF isspace(ch)
    THEN IF ist.eof THEN [ret |-> FALSE, ist |-> ist, ch |-> ch]
         ELSE skip_read(read(ist, ch))
    ELSE [ret |-> TRUE, ist |-> ist, ch |-> ch]

\* _skip_spaces (1455-1471)
_skip_spaces(ist, ch, check_current_char) ==
    IF ~check_current_char
    THEN IF ist.eof THEN [ret |-> FALSE, ist |-> ist, ch |-> ch]
         ELSE skip_read(read(ist, ch))
    ELSE skip_while_space(ist, ch)

\* parse(std::istream &, Null &, char first_char, bool first_char_read)
\* (1473-1490) as the entry and element parsers call it: first_char is read
\* and is no space
parse_Null(ist, first_char) ==
    LET r == read_n(ist, 3)
    IN  IF <<first_char>> \o r.chars # <<"n", "u", "l", "l">>
        THEN Throw("invalid null value.")
        ELSE [ok |-> TRUE, ist |-> r.ist, value |-> Null]

\* parse(std::istream &, Boolean &, char first_char, bool first_char_read)
\* (1492-1519), called likewise
parse_Boolean(ist, first_char) ==
    IF first_char = "t"
    THEN LET r == read_n(ist, 3)
         IN  IF <<first_char>> \o r.chars # <<"t", "r", "u", "e">>
             THEN Throw("invalid boolean value.")
             ELSE [ok |-> TRUE, ist |-> r.ist, value |-> Boolean(TRUE)]
    ELSE IF first_char = "f"
    THEN LET r == read_n(ist, 4)
         IN  IF <<first_char>> \o r.chars # <<"f", "a", "l", "s", "e">>
             THEN Throw("invalid boolean value.")
             ELSE [ok |-> TRUE, ist |-> r.ist, value |-> Boolean(FALSE)]
    ELSE Throw("invalid boolean value.")

\* the loop of parse(String): "read string until end quotes are reached"
RECURSIVE string_loop(_, _, _, _)
string_read(r, ch, escape_, buffer) ==
    string_loop(r.ist, r.ch, ch = "\\" /\ ~escape_, Append(buffer, ch))

string_loop(ist, ch, escape_, buffer) ==
    IF escape_ \/ ch # "\""
    THEN IF ist.eof THEN Throw("end of stream.")
         ELSE string_read(read(ist, ch), ch, escape_, buffer)
    ELSE [ok |-> TRUE, ist |-> ist, value |-> String(buffer)]

\* parse(String) after the opening quote: the first ist.read(&ch, 1)
string_first(r) == string_loop(r.ist, r.ch, FALSE, <<>>)

\* parse(String): the check of the opening quote
string_open(s) ==
    IF ~s.ret THEN Throw("end of stream.")
    ELSE IF s.ch # "\"" THEN Throw("missing opening quote for string.")
    ELSE string_first(read(s.ist, s.ch))

\* parse(std::istream &, String &, bool skip_opening_check) (1709-1737)
parse_String(ist, skip_opening_check) ==
    IF skip_opening_check THEN string_first(read(ist, indeterminate))
    ELSE string_open(_skip_spaces(ist, indeterminate, FALSE))

\* make_base_ptr(std::atof(buffer.c_str())) after the token n
number_of(x, n) ==
    IF x = undefined THEN Throw("undefined")
    ELSE [ok |-> TRUE, ist |-> n.ist, ch |-> n.ch, value |-> Number(x)]

\* make_base_ptr(std::atoll(buffer.c_str())) after the token n: std::atoll
\* gives a long long, held as Int64
integer_of(i, n) ==
    IF i = undefined THEN Throw("undefined")
    ELSE [ok |-> TRUE, ist |-> n.ist, ch |-> n.ch, value |-> Integer(json_Int("Int64", i))]

\* the token a scalar parser's loop leaves: the stream and the C string in
\* the buffer
token(ist, buffer) == [ist |-> ist, ch |-> indeterminate, buffer |-> buffer, null |-> FALSE]

\* the for loop of parse(Integer) (1535-1581): at most 15 characters are
\* stored; the character that ends the number is consumed
RECURSIVE integer_char(_, _, _, _)
integer_read(r, buffer) ==
    IF r.ist.eof THEN token(r.ist, buffer)
    ELSE integer_char(r.ist, r.ch, buffer, FALSE)

integer_char(ist, ch, buffer, reading_first_char) ==
    IF (isdigit(ch) \/ (ch \in {"+", "-"} /\ reading_first_char)) /\ Len(buffer) < 14
    THEN integer_read(read(ist, indeterminate), Append(buffer, ch))
    ELSE IF isdigit(ch) \/ (ch \in {"+", "-"} /\ reading_first_char)
    THEN token(ist, Append(buffer, ch))
    ELSE token(ist, buffer)

\* parse(std::istream &, Integer &, char first_char, bool first_char_read)
\* (1520-1585) after the leading white space: first_char is read;
\* jinteger.integer() = integer_t(std::atoll(buffer))
integer_value(t) == integer_of(atoll(t.buffer), t)

parse_Integer(ist, first_char) == integer_value(integer_char(ist, first_char, <<>>, TRUE))

\* std::numeric_limits<double>::quiet_NaN()
quiet_NaN == "NaN"

\* the switch of parse(Number) (1624-1693) on ch: whether ch is stored, ends
\* the number or starts "null", and the flags after it
number_switch(ch, f) ==
    CASE ch = "." /\ ~f.decimal_point_ ->
            [act |-> "store", f |-> [f EXCEPT !.decimal_point_ = TRUE, !.reading_first_char = FALSE]]
      [] ch = "." /\ f.decimal_point_ -> [act |-> "stop", f |-> f]
      [] isdigit(ch) -> [act |-> "store", f |-> [f EXCEPT !.reading_first_char = FALSE]]
      [] ch = "n" /\ f.reading_first_char -> [act |-> "null", f |-> f]
      [] ch \in {"n", "E", "e"} /\ ~(ch = "n" /\ f.reading_first_char) ->
            IF ~f.exponent_ THEN [act |-> "store", f |-> [f EXCEPT !.exponent_ = TRUE]]
            ELSE [act |-> "stop", f |-> f]
      [] ch \in {"+", "-"} ->
            IF f.reading_first_char
            THEN [act |-> "store", f |-> [f EXCEPT !.reading_first_char = FALSE]]
            ELSE IF f.exponent_ /\ ~f.exponent_sign_
            THEN [act |-> "store", f |-> [f EXCEPT !.exponent_sign_ = TRUE]]
            ELSE [act |-> "stop", f |-> f]
      [] OTHER -> [act |-> "stop", f |-> f]

\* case 'n' on the first character: the three characters after it are read
number_null(r, buffer) ==
    [ist |-> r.ist, ch |-> indeterminate, buffer |-> buffer,
     null |-> <<"n">> \o r.chars = <<"n", "u", "l", "l">>]

\* the for loop of parse(Number) (1607-1696): at most 39 characters are
\* stored; f holds reading_first_char, exponent_, exponent_sign_ and
\* decimal_point_
RECURSIVE number_char(_, _, _, _)
number_read(r, buffer, f) ==
    IF r.ist.eof THEN token(r.ist, buffer)
    ELSE number_char(r.ist, r.ch, buffer, f)

number_act(ist, ch, buffer, o) ==
    IF o.act = "store" /\ Len(buffer) < 38
    THEN number_read(read(ist, indeterminate), Append(buffer, ch), o.f)
    ELSE IF o.act = "store" THEN token(ist, Append(buffer, ch))
    ELSE IF o.act = "null" THEN number_null(read_n(ist, 3), buffer)
    ELSE token(ist, buffer)

number_char(ist, ch, buffer, f) == number_act(ist, ch, buffer, number_switch(ch, f))

\* jnumber.number() = number_t(std::atof(buffer)) (1697-1706), or the NaN of
\* "null" (1654-1658)
number_value(t) ==
    IF t.null THEN [ok |-> TRUE, ist |-> t.ist, ch |-> t.ch, value |-> Number(quiet_NaN)]
    ELSE number_of(atof(t.buffer), t)

\* parse(std::istream &, Number &, char first_char, bool first_char_read)
\* (1587-1707) after the leading white space
parse_Number(ist, first_char) ==
    number_value(number_char(ist, first_char, <<>>,
                             [reading_first_char |-> TRUE, exponent_ |-> FALSE,
                              exponent_sign_ |-> FALSE, decimal_point_ |-> FALSE]))

\* the checks and conversions after the loop that read the numeric token n
\* (1870-1883, 1983-1994); real: the token is a floating point number
numeric_value(n, real) ==
    IF ~n.ok THEN n
    ELSE IF n.decimal_points > 1
    THEN Throw("invalid numeric value. More than one decimal points.")
    ELSE IF real THEN number_of(atof(n.buffer), n)
    ELSE integer_of(atoll(n.buffer), n)

\* the while(continue_) loop of the numeric branch of parse(Entry) (1806-1869);
\* r is the ist.read(&ch, 1) of the iteration
RECURSIVE entry_number(_, _, _, _, _, _, _)
entry_number_read(r, buffer, digits, decimal_points, scientific_, scientific_sign_) ==
    IF r.ch = "e"
    THEN IF digits = 0 THEN Throw("At least one digit required before 'e'.")
         ELSE IF ~scientific_
         THEN entry_number(r.ist, r.ch, Append(buffer, r.ch), digits, decimal_points,
                           TRUE, scientific_sign_)
         ELSE [ok |-> TRUE, ist |-> r.ist, ch |-> r.ch, buffer |-> buffer,
               decimal_points |-> decimal_points, scientific_ |-> scientific_]
    ELSE IF r.ch = "." /\ decimal_points > 0
    THEN Throw("Multiple decimal points in numeric value.")
    ELSE IF r.ch = "." \/ isdigit(r.ch)
    THEN entry_number(r.ist, r.ch, Append(buffer, r.ch), digits + 1,
                      IF r.ch = "." THEN decimal_points + 1 ELSE decimal_points,
                      scientific_, scientific_sign_)
    ELSE IF r.ch \in {"+", "-"}
    THEN IF scientific_ /\ ~scientific_sign_
         THEN entry_number(r.ist, r.ch, Append(buffer, r.ch), digits, decimal_points,
                           scientific_, TRUE)
         ELSE IF r.ch = "+" THEN Throw("Invalid positive sign in numeric value.")
         ELSE Throw("Invalid negative sign in numeric value.")
    ELSE IF r.ch \in {",", "}"} \/ isspace(r.ch)
    THEN [ok |-> TRUE, ist |-> r.ist, ch |-> r.ch, buffer |-> buffer,
          decimal_points |-> decimal_points, scientific_ |-> scientific_]
    ELSE Throw("invalid numeric token.")

entry_number(ist, ch, buffer, digits, decimal_points, scientific_, scientific_sign_) ==
    IF ist.eof THEN Throw("end of stream.")
    ELSE entry_number_read(read(ist, ch), buffer, digits, decimal_points,
                           scientific_, scientific_sign_)

\* the while(continue_) loop of the numeric branch of parse(array_element_t)
\* (1943-1982)
RECURSIVE element_number(_, _, _, _)
element_number_read(r, buffer, decimal_points) ==
    IF r.ch = "." /\ decimal_points > 0
    THEN Throw("Multiple decimal points in numeric value.")
    ELSE IF r.ch = "." \/ isdigit(r.ch)
    THEN element_number(r.ist, r.ch, Append(buffer, r.ch),
                        IF r.ch = "." THEN decimal_points + 1 ELSE decimal_points)
    ELSE IF r.ch = "+" THEN Throw("Invalid positive sign in numeric value.")
    ELSE IF r.ch = "-" THEN Throw("Invalid negative sign in numeric value.")
    ELSE IF r.ch \in {",", "}"} \/ isspace(r.ch)
    THEN [ok |-> TRUE, ist |-> r.ist, ch |-> r.ch, buffer |-> buffer,
          decimal_points |-> decimal_points, scientific_ |-> FALSE]
    ELSE Throw("invalid numeric token.")

element_number(ist, ch, buffer, decimal_points) ==
    IF ist.eof THEN Throw("end of stream.")
    ELSE element_number_read(read(ist, ch), buffer, decimal_points)

RECURSIVE parse_Entry(_, _)
RECURSIVE parse_element(_, _)
RECURSIVE parse_Array(_, _)
RECURSIVE parse_Object(_, _)
RECURSIVE array_loop(_, _, _)
RECURSIVE object_loop(_, _, _)

\* the ist.read(&ch, 1) that ends the branch of a parsed value
value_read(parsed, r) == [ok |-> TRUE, ist |-> r.ist, ch |-> r.ch, value |-> parsed.value]

then_read(parsed, ch) ==
    IF ~parsed.ok THEN parsed ELSE value_read(parsed, read(parsed.ist, ch))

\* the branches on the first character of a value that parse(Entry) and
\* parse(array_element_t) share (1756-1795, 1902-1936)
parse_value(ist, ch) ==
    then_read(CASE ch = "\"" -> parse_String(ist, TRUE)
                [] ch = "{" -> parse_Object(ist, TRUE)
                [] ch = "[" -> parse_Array(ist, TRUE)
                [] ch = "n" -> parse_Null(ist, ch)
                [] ch \in {"t", "f"} -> parse_Boolean(ist, ch),
              ch)

is_value_start(ch) == ch \in {"\"", "{", "[", "n", "t", "f"}
is_number_start(ch) == isdigit(ch) \/ ch \in {"+", "-", "."}

\* parse(Entry): the entry made of the key and the value read
entry_value(key, v) ==
    IF ~v.ok THEN v
    ELSE [ok |-> TRUE, ist |-> v.ist, ch |-> v.ch, key |-> key, value |-> v.value]

\* parse(Entry): the token of a numeric value
entry_numeric(key, n) ==
    entry_value(key, numeric_value(n, n.ok /\ (n.decimal_points > 0 \/ n.scientific_)))

\* parse(Entry): the branch on the first character of the value (1756-1886)
entry_first(key, first) ==
    IF ~first.ret THEN Throw("end of stream.")
    ELSE IF is_value_start(first.ch) THEN entry_value(key, parse_value(first.ist, first.ch))
    ELSE IF is_number_start(first.ch)
    THEN entry_numeric(key, entry_number(first.ist, first.ch, <<first.ch>>, 0,
                                         IF first.ch = "." THEN 1 ELSE 0, FALSE, FALSE))
    ELSE IF first.ch # "}" THEN Throw("invalid object entry value token.")
    ELSE [ok |-> TRUE, ist |-> first.ist, ch |-> first.ch, key |-> <<>>, value |-> nullptr]

\* parse(Entry): "skip white-spaces until ':' is reached" (1748-1752)
entry_colon(key, colon) ==
    IF ~colon.ret THEN Throw("end of stream.")
    ELSE IF colon.ch # ":" THEN Throw("missing key-value separator ':' for object entry.")
    ELSE entry_first(key, _skip_spaces(colon.ist, colon.ch, FALSE))

\* parse(Entry): the key read (1746-1747)
entry_key(key, ch) ==
    IF ~key.ok THEN key
    ELSE entry_colon(key.value.string, _skip_spaces(key.ist, ch, FALSE))

\* parse(std::istream &, Entry &, char & ch) (1739-1890): the entry read (key
\* and value; the value of an entry left empty is nullptr)
parse_Entry(ist, ch) ==
    IF ist.eof THEN [ok |-> TRUE, ist |-> ist, ch |-> ch, key |-> <<>>, value |-> nullptr]
    ELSE entry_key(parse_String(ist, FALSE), ch)

\* parse(array_element_t): the token of a numeric value (1984-1995)
element_numeric(n) == numeric_value(n, n.ok /\ n.decimal_points > 0)

\* parse(array_element_t): the branch on the first character (1899-1997)
element_first(first) ==
    IF ~first.ret THEN Throw("end of stream.")
    ELSE IF is_value_start(first.ch) THEN parse_value(first.ist, first.ch)
    ELSE IF is_number_start(first.ch)
    THEN element_numeric(element_number(first.ist, first.ch, <<first.ch>>,
                                        IF first.ch = "." THEN 1 ELSE 0))
    ELSE IF first.ch # "]" THEN Throw("invalid array element value token.")
    ELSE [ok |-> TRUE, ist |-> first.ist, ch |-> first.ch, value |-> nullptr]

\* parse(std::istream &, array_element_t &, char & ch) (1892-2001): the element
\* read, nullptr when there is none
parse_element(ist, ch) ==
    IF ist.eof THEN [ok |-> TRUE, ist |-> ist, ch |-> ch, value |-> nullptr]
    ELSE element_first(_skip_spaces(ist, ch, FALSE))

\* parse(Array): the token after an element (2021-2028)
array_next(s, elements) ==
    IF ~s.ret THEN Throw("end of stream.")
    ELSE IF s.ch = "," THEN array_loop(s.ist, s.ch, elements)
    ELSE IF s.ch = "]" THEN [ok |-> TRUE, ist |-> s.ist, value |-> Array(elements)]
    ELSE Throw("invalid token. ',' or ']' expected.")

\* parse(Array): the element read is pushed when there is one (2017-2020)
array_push(e, elements) ==
    IF ~e.ok THEN e
    ELSE array_next(_skip_spaces(e.ist, e.ch, TRUE),
                    IF e.value # nullptr THEN Append(elements, e.value) ELSE elements)

\* the while(!ist.eof()) loop of parse(Array)
array_loop(ist, ch, elements) ==
    IF ist.eof THEN [ok |-> TRUE, ist |-> ist, value |-> Array(elements)]
    ELSE array_push(parse_element(ist, ch), elements)

\* parse(Array): the check of the opening bracket (2008-2014)
array_open(s) ==
    IF ~s.ret THEN Throw("end of stream.")
    ELSE IF s.ch # "[" THEN Throw("missing opening square bracket for array.")
    ELSE array_loop(s.ist, s.ch, <<>>)

\* parse(std::istream &, Array &, bool skip_opening_check) (2003-2031)
parse_Array(ist, skip_opening_check) ==
    IF skip_opening_check THEN array_loop(ist, indeterminate, <<>>)
    ELSE array_open(_skip_spaces(ist, indeterminate, FALSE))

\* parse(Object): the token after an entry (2055-2062)
object_next(s, ents) ==
    IF ~s.ret THEN Throw("end of stream.")
    ELSE IF s.ch = "," THEN object_loop(s.ist, s.ch, ents)
    ELSE IF s.ch = "}" THEN [ok |-> TRUE, ist |-> s.ist, value |-> Object(ents)]
    ELSE Throw("invalid token. ',' or '}' expected.")

\* parse(Object): the entry read is inserted; insert keeps the entry a key
\* already has (2052-2054)
object_insert(e, ents) ==
    IF ~e.ok THEN e
    ELSE object_next(_skip_spaces(e.ist, e.ch, TRUE),
                     insert(ents, e.key, e.value))

\* the while(!ist.eof()) loop of parse(Object)
object_loop(ist, ch, ents) ==
    IF ist.eof THEN [ok |-> TRUE, ist |-> ist, value |-> Object(ents)]
    ELSE object_insert(parse_Entry(ist, ch), ents)

\* parse(Object): the checks of the first character (2037-2048)
object_open(s, skip_opening_check) ==
    IF ~s.ret THEN Throw("end of stream.")
    ELSE IF ~skip_opening_check /\ s.ch # "{" THEN Throw("missing opening brace for object.")
    ELSE IF s.ch = "}" THEN [ok |-> TRUE, ist |-> s.ist, value |-> Object(NoEntries)]
    ELSE object_loop(IF s.ch = "\"" THEN putback(s.ist) ELSE s.ist, s.ch, NoEntries)

\* parse(std::istream &, Object &, bool skip_opening_check) (2033-2065)
parse_Object(ist, skip_opening_check) ==
    object_open(_skip_spaces(ist, indeterminate, FALSE), skip_opening_check)

\* operator>>(std::istream &, Array &) and operator>>(std::istream &, Object &)
\* (2082-2086) on a stream holding the text
parse(text, C) ==
    IF C = "Array" THEN parse_Array(istream(text), FALSE)
    ELSE parse_Object(istream(text), FALSE)

(***************************************************************************)
(* The keys a path makes the walks above look up, in order: the first key  *)
(* is always read (src/json.hpp:986-989), a further one only while         *)
(* index_0 < id.size() (src/json.hpp:1004-1008, 1069-1073, 1197-1201).     *)
(***************************************************************************)
RECURSIVE path_keys(_, _)
path_keys(id, index_0) ==
    LET index_1 == find_dot(id, index_0)
        cur_id  == substr(id, index_0, index_1)
        next_0  == index_1 + 1
    IN  <<cur_id>> \o (IF next_0 < Len(id) THEN path_keys(id, next_0) ELSE <<>>)

(***************************************************************************)
(* The path API as a state machine: an Object built by the Entry-list      *)
(* constructor (src/json.hpp:1046-1051) receives set, set_safe, get<C> and *)
(* remove calls (at most MaxCalls of them), one at a time.                 *)
(***************************************************************************)
RECURSIVE SeqsUpTo(_, _)
SeqsUpTo(S, n) ==
    IF n = 0 THEN {<<>>}
    ELSE LET shorter == SeqsUpTo(S, n - 1)
         IN  shorter \cup {Append(t, c) : t \in {u \in shorter : Len(u) = n - 1}, c \in S}

PathChars == {"a", "."}
Paths == SeqsUpTo(PathChars, MaxPathLen)

int5 == Integer(json_Int("Int32", Wide(5)))
int7 == Integer(json_Int("Int32", Wide(7)))
str_s == String(<<"s">>)

SetValues == {int5, str_s}
GetKinds == {"Integer", "String", "Object"}

\* Object({ {k1, v1}, {k2, v2} }): insert skips a key already present
Entries1(k1, v1) == insert(NoEntries, k1, v1)
Entries2(k1, v1, k2, v2) == insert(Entries1(k1, v1), k2, v2)

\* the entries under the keys "a" and "b"; nullptr leaves the key out
EntriesOf2(a, b) ==
    [k \in {x \in {<<"a">>, <<"b">>} : (IF x = <<"a">> THEN a ELSE b) # nullptr} |->
        IF k = <<"a">> THEN a ELSE b]

InitObjects == {
    Object(NoEntries),
    Object(Entries1(<<"a">>, int7)),
    Object(Entries2(<<"a">>, Object(Entries1(<<"a">>, str_s)), <<"a", "a">>, int7)),
    Object(Entries2(<<"a">>, Object(Entries2(<<"a">>, Object(Entries1(<<"a">>, int7)),
                                             <<"a", "a">>, Null)),
                    <<>>, Object(Entries1(<<>>, Boolean(TRUE))))),
    Object(Entries2(<<"a">>, Array(<<int7>>), <<>>, Object(NoEntries)))
}

NoIo == [op |-> "none", tree |-> nullptr, C |-> "", style |-> <<>>, order |-> <<>>,
         text |-> <<>>, ok |-> FALSE, result |-> nullptr, error |-> "",
         uninitialized |-> "indeterminate", entries_ |-> <<>>]

NoDes == [op |-> "none", object |-> <<>>, serial |-> nullptr, ok |-> FALSE, result |-> <<>>]

NoScan == [op |-> "none", C |-> "", ist |-> istream(<<>>), first_char |-> "\\0",
           pc |-> "", value |-> nullptr, error |-> ""]

NoFmt == [op |-> "none", rhs |-> Double(FALSE, 0, <<>>), precision_ |-> -1, buffer |-> <<>>,
          text |-> <<>>]
NoRaw == [op |-> "none", little_endian |-> FALSE, object |-> <<>>, serial |-> nullptr,
          ok |-> FALSE, result |-> <<>>]

NoNum == [op |-> "none", T |-> "Int64", F |-> "Int64", value |-> <<>>, serial |-> nullptr,
          ok |-> FALSE, result |-> <<>>]

NoCall == [op |-> "none", id |-> <<>>, value |-> Null, kind |-> "",
           ret |-> nullptr, ok |-> FALSE, pre |-> Object(NoEntries)]

Init ==
    /\ root \in InitObjects
    /\ ncalls = 0
    /\ call = NoCall
    /\ num = NoNum
    /\ des = NoDes
    /\ raw = NoRaw
    /\ scan = NoScan
    /\ fmt = NoFmt
    /\ io = NoIo

\* a call is made when the previous one has returned
CanCall == ncalls < MaxCalls /\ call = NoCall

Set(id, value) ==
    /\ CanCall
    /\ LET r == set(root, id, value)
       IN  /\ root' = Object(r.entries)
           /\ call' = [op |-> "set", id |-> id, value |-> value, kind |-> "",
                       ret |-> r.slot, ok |-> r.slot # nullptr, pre |-> root]
    /\ ncalls' = ncalls + 1

SetSafe(id, value) ==
    /\ CanCall
    /\ LET r == set_safe(root, id, value)
       IN  /\ root' = Object(r.entries)
           /\ call' = [op |-> "set_safe", id |-> id, value |-> value, kind |-> "",
                       ret |-> r.slot, ok |-> r.slot # nullptr, pre |-> root]
    /\ ncalls' = ncalls + 1

Get(id, C) ==
    /\ CanCall
    /\ LET r == get_C(root, id, C)
       IN  call' = [op |-> "get", id |-> id, value |-> Null, kind |-> C,
                    ret |-> r, ok |-> r # nullptr, pre |-> root]
    /\ root' = root
    /\ ncalls' = ncalls + 1

Remove(id) ==
    /\ CanCall
    /\ LET r == remove(root, id)
       IN  /\ root' = Object(r.entries)
           /\ call' = [op |-> "remove", id |-> id, value |-> Null, kind |-> "",
                       ret |-> nullptr, ok |-> r.ok, pre |-> root]
    /\ ncalls' = ncalls + 1

\* the caller drops the result of the last call
Return ==
    /\ call # NoCall
    /\ call' = NoCall
    /\ UNCHANGED <<root, ncalls>>
    /\ UNCHANGED notPathVars

SetCall == CanCall /\ (\E id \in Paths, value \in SetValues : Set(id, value)) /\ UNCHANGED notPathVars
SetSafeCall == CanCall /\ (\E id \in Paths, value \in SetValues : SetSafe(id, value)) /\ UNCHANGED notPathVars
GetCall == CanCall /\ (\E id \in Paths, C \in GetKinds : Get(id, C)) /\ UNCHANGED notPathVars
RemoveCall == CanCall /\ (\E id \in Paths : Remove(id)) /\ UNCHANGED notPathVars

Next ==
    \/ SetCall
    \/ SetSafeCall
    \/ GetCall
    \/ RemoveCall
    \/ Return

Spec == Init /\ [][Next]_vars

(***************************************************************************)
(* What the claims about the path API speak of.                            *)
(***************************************************************************)
\* the node reached from node n by following keys through Objects, or nullptr
RECURSIVE NodeAt(_, _)
NodeAt(n, keys) ==
    IF keys = <<>> THEN n
    ELSE IF n.kind = "Object" /\ Head(keys) \in DOMAIN n.entries
         THEN NodeAt(n.entries[Head(keys)], Tail(keys))
         ELSE nullptr

Prefix(keys, i) == SubSeq(keys, 1, i)

\* the path as split at every '.', empty pieces kept
RECURSIVE Split(_)
Split(id) ==
    LET index_1 == find_dot(id, 0)
    IN  IF index_1 = Len(id) THEN <<id>>
        ELSE <<SubSeq(id, 1, index_1)>> \o Split(SubSeq(id, index_1 + 2, Len(id)))

\* the keys of the last call
CallKeys == path_keys(call.id, 0)

\* an existing intermediate segment i of the path with keys `keys` held, before
\* the last call, a node that is not an Object
NonObjectIntermediateAt(keys, i) ==
    /\ i \in 1..(Len(keys) - 1)
    /\ LET n == NodeAt(call.pre, Prefix(keys, i))
       IN  n # nullptr /\ n.kind # "Object"

\* the Object holding only the remainder of a path, with value at its end
RECURSIVE Chain(_, _)
Chain(keys, value) ==
    IF keys = <<>> THEN value
    ELSE Object(Entries1(Head(keys), Chain(Tail(keys), value)))

\* C5: after set(p, v) with an Integer v and a path p whose segments are all
\* non-empty, get<Integer>(p) returns a node, and its value is v.
C5_SetThenGet ==
    (call.op = "set" /\ call.value.kind = "Integer"
        /\ LET segments == Split(call.id)
           IN  \A i \in 1..Len(segments) : segments[i] # <<>>)
    => LET got == get_C(root, call.id, "Integer")
       IN  got # nullptr /\ got.integer = call.value.integer

C5_Witness ==
    /\ call.op = "set"
    /\ call.id = <<"a", ".", "a", "a">>
    /\ call.value = int5
    /\ call.pre # root
    /\ get_C(root, call.id, "Integer") = int5

C9_Resolves(keys) ==
    /\ \A i \in 1..(Len(keys) - 1) :
            LET n == NodeAt(call.pre, Prefix(keys, i))
            IN  n # nullptr /\ n.kind = "Object"
    /\ LET n == NodeAt(call.pre, keys)
       IN  n # nullptr /\ n.kind = call.kind

C9_WitnessNone ==
    /\ call.op = "get"
    /\ Len(CallKeys) = 2
    /\ NodeAt(call.pre, CallKeys) # nullptr
    /\ NodeAt(call.pre, CallKeys).kind # call.kind
    /\ call.ret = nullptr

\* the tree n without the entry at the end of keys, everything else kept
RECURSIVE ErasedAt(_, _)
ErasedAt(n, keys) ==
    IF Len(keys) = 1 THEN Object(Erase(n.entries, keys[1]))
    ELSE Object(Put(n.entries, keys[1], ErasedAt(n.entries[keys[1]], Tail(keys))))

C20_SplitKeys ==
    LET keys == Split(call.id)
    IN  /\ call.op # "none" => CallKeys = keys
        /\ (call.op = "get" /\ call.ret # nullptr) => call.ret = NodeAt(call.pre, keys)
        /\ (call.op \in {"set", "set_safe"} /\ call.ret # nullptr)
           => NodeAt(root, keys) = call.value
        /\ (call.op = "remove" /\ call.ok)
           => NodeAt(call.pre, keys) # nullptr /\ NodeAt(root, keys) = nullptr

(***************************************************************************)
(* The numeric core as a state machine: each step is one call of           *)
(* clamped_integer_convert<T>(F value) or of deserialize_integer<T> on a   *)
(* node, with inputs drawn from the boundary values of the eight types.    *)
(***************************************************************************)
InRange(T, value) ==
    LessEq(numeric_limits_min(T), value) /\ LessEq(value, numeric_limits_max(T))

BoundaryValues ==
    {numeric_limits_min(T) : T \in IntTypes} \cup {numeric_limits_max(T) : T \in IntTypes}
    \cup {Inc(numeric_limits_min(T)) : T \in IntTypes}
    \cup {Dec(numeric_limits_max(T)) : T \in IntTypes}
    \cup {Inc(numeric_limits_max(T)) : T \in IntTypes \ {"UInt64"}}
    \cup {Dec(numeric_limits_min(T)) : T \in IntTypes \ {"Int64"}}
    \cup {Wide(-300), Wide(-2), Wide(2), Wide(100), Wide(300)}

\* the values of native type T among the boundary values
Samples(T) == {v \in BoundaryValues : InRange(T, v)}

\* the nodes handed to deserialize_integer
IntegerNodes == UNION {{Integer(json_Int(F, v)) : v \in Samples(F)} : F \in IntTypes}
OtherNodes == {Null, Boolean(TRUE), Boolean(FALSE), str_s,
               Number(Double(FALSE, 1, <<5>>)), Number(Double(FALSE, 2, <<2, 5>>)),
               Number(Double(FALSE, 0, <<>>)), Array(<<>>), Object(NoEntries), nullptr}

InitNumeric ==
    /\ root = Object(NoEntries)
    /\ ncalls = 0
    /\ call = NoCall
    /\ num = NoNum
    /\ des = NoDes
    /\ raw = NoRaw
    /\ scan = NoScan
    /\ fmt = NoFmt
    /\ io = NoIo

Convert(T, F, value) ==
    /\ num' = [op |-> "convert", T |-> T, F |-> F, value |-> value, serial |-> nullptr,
               ok |-> TRUE, result |-> clamped_integer_convert(T, F, value)]
    /\ UNCHANGED notNumVars

DeserializeInteger(T, value_, serial) ==
    /\ LET r == deserialize_integer(T, value_, serial)
       IN  num' = [op |-> "deserialize_integer", T |-> T, F |-> T, value |-> value_,
                   serial |-> serial, ok |-> r.ok, result |-> r.value]
    /\ UNCHANGED notNumVars

\* the caller takes the result; the next call starts afresh
NumReturn ==
    /\ num # NoNum
    /\ num' = NoNum
    /\ UNCHANGED notNumVars

ConvertCall ==
    num = NoNum /\ \E T \in IntTypes, F \in IntTypes : \E value \in Samples(F) : Convert(T, F, value)

DeserializeIntegerCall ==
    num = NoNum /\ \E T \in IntTypes, serial \in IntegerNodes \cup OtherNodes :
                        DeserializeInteger(T, Wide(3), serial)

NextNumeric == ConvertCall \/ DeserializeIntegerCall \/ NumReturn

SpecNumeric == InitNumeric /\ [][NextNumeric]_vars

\* the value of T nearest to value
Clamp(T, value) ==
    IF Less(numeric_limits_max(T), value) THEN numeric_limits_max(T)
    ELSE IF Less(value, numeric_limits_min(T)) THEN numeric_limits_min(T)
    ELSE value

\* C3: clamped_integer_convert<T>(v) is v when T can hold it, T's maximum when
\* v is above it and T's minimum when v is below it, for all 8 x 8 type pairs.
C3_ClampedConvert ==
    num.op = "convert" => num.result = Clamp(num.T, num.value)

\* C4: deserializing an Integer node that holds the value v into a native
\* integer of type T stores clamp(v, T::MIN, T::MAX).
C4_DeserializeClamps ==
    (num.op = "deserialize_integer" /\ num.serial.kind = "Integer")
    => /\ num.ok
       /\ num.result = Clamp(num.T, Int_as(num.serial.integer, num.serial.integer.type))

(***************************************************************************)
(* Deserialization into containers (src/include/json_serial.hpp:631-812).  *)
(* A fixed array, std::array, std::vector and std::list is the sequence of *)
(* its elements, a map the function from its keys to its values; T is the  *)
(* element type.  Each operator yields the returned bool and the container *)
(* after the call.                                                         *)
(***************************************************************************)
\* T{}: the value-initialized element
ValueInitialized(T) ==
    CASE T = "boolean_t" -> FALSE
      [] T = "string_t" -> <<>>
      [] OTHER -> Wide(0)

\* for(auto & e : array_) of deserialize(T (&)[size_], ...) from the i-th
\* element on; r is what deserialize(e, *it, ...) gave
RECURSIVE array_each(_, _, _, _)
array_element(T, array_, arr, i, r) ==
    IF ~r.ok THEN [ok |-> FALSE, value |-> array_]
    ELSE array_each(T, [array_ EXCEPT ![i] = r.value], arr, i + 1)

array_each(T, array_, arr, i) ==
    IF i > Len(array_) \/ i > Len(arr) THEN [ok |-> TRUE, value |-> array_]
    ELSE array_element(T, array_, arr, i, deserialize_member(T, array_[i], arr[i]))

\* a deserialize into a fixed array that first value-initializes the elements
\* the node has no element for
deserialize_array_reset(T, array_, serial) ==
    IF serial = nullptr \/ serial.kind # "Array" THEN [ok |-> FALSE, value |-> array_]
    ELSE array_each(T, [k \in DOMAIN array_ |->
                            IF k > Len(serial.elements) THEN ValueInitialized(T) ELSE array_[k]],
                    serial.elements, 1)

\* deserialize(T (&)[size_], base_ptr_t const &, ...) (645-662)
deserialize_array(T, array_, serial) ==
    IF serial = nullptr \/ serial.kind # "Array" THEN [ok |-> FALSE, value |-> array_]
    ELSE array_each(T, array_, serial.elements, 1)

\* deserialize(std::array<T,size_> &, base_ptr_t const &, ...) (676-693)
deserialize_std_array(T, array_, serial) ==
    IF serial = nullptr \/ serial.kind # "Array" THEN [ok |-> FALSE, value |-> array_]
    ELSE array_each(T, array_, serial.elements, 1)

\* deserialize(std::vector<T> &, base_ptr_t const &, ...) (707-722): array_ is
\* first replaced by std::vector<T>(arr.size())
deserialize_vector(T, array_, serial) ==
    IF serial = nullptr \/ serial.kind # "Array" THEN [ok |-> FALSE, value |-> array_]
    ELSE array_each(T, [k \in 1..Len(serial.elements) |-> ValueInitialized(T)],
                    serial.elements, 1)

\* for(auto & e : arr) of deserialize(std::list<T> &, ...); new_val is read
\* only after a deserialize that assigned it
RECURSIVE list_each(_, _, _, _)
list_element(T, list_, arr, i, r) ==
    IF ~r.ok THEN [ok |-> FALSE, value |-> list_]
    ELSE list_each(T, Append(list_, r.value), arr, i + 1)

list_each(T, list_, arr, i) ==
    IF i > Len(arr) THEN [ok |-> TRUE, value |-> list_]
    ELSE list_element(T, list_, arr, i, deserialize_member(T, ValueInitialized(T), arr[i]))

\* deserialize(std::list<T> &, base_ptr_t const &, ...) (736-752)
deserialize_list(T, list_, serial) ==
    IF serial = nullptr \/ serial.kind # "Array" THEN [ok |-> FALSE, value |-> list_]
    ELSE list_each(T, <<>>, serial.elements, 1)

\* for(auto & e : obj) of deserialize(std::map<string_t,V> &, ...) over the
\* keys in iteration order
RECURSIVE map_each(_, _, _, _, _)
map_element(V, map_, obj, keys, i, r) ==
    IF ~r.ok THEN [ok |-> FALSE, value |-> map_]
    ELSE map_each(V, Put(map_, keys[i], r.value), obj, keys, i + 1)

map_each(V, map_, obj, keys, i) ==
    IF i > Len(keys) THEN [ok |-> TRUE, value |-> map_]
    ELSE map_element(V, map_, obj, keys, i,
                     deserialize_member(V, ValueInitialized(V), obj[keys[i]]))

\* deserialize(std::map<string_t,V> &, base_ptr_t const &, ...) (766-782);
\* order is the iteration order of the Object's unordered_map
deserialize_map(V, map_, serial, order) ==
    IF serial = nullptr \/ serial.kind # "Object" THEN [ok |-> FALSE, value |-> map_]
    ELSE map_each(V, NoEntries, serial.entries,
                  SelectSeq(order, LAMBDA k : k \in DOMAIN serial.entries), 1)

\* deserialize(std::unordered_map<string_t,V> &, base_ptr_t const &, ...)
\* (796-812)
deserialize_unordered_map(V, map_, serial, order) ==
    IF serial = nullptr \/ serial.kind # "Object" THEN [ok |-> FALSE, value |-> map_]
    ELSE map_each(V, NoEntries, serial.entries,
                  SelectSeq(order, LAMBDA k : k \in DOMAIN serial.entries), 1)

\* the overload of deserialize chosen by the container's type
deserialize_container(C, T, object, serial, order) ==
    CASE C = "T[size_]" -> deserialize_array(T, object, serial)
      [] C = "std::array" -> deserialize_std_array(T, object, serial)
      [] C = "std::vector" -> deserialize_vector(T, object, serial)
      [] C = "std::list" -> deserialize_list(T, object, serial)
      [] C = "std::map" -> deserialize_map(T, object, serial, order)
      [] C = "std::unordered_map" -> deserialize_unordered_map(T, object, serial, order)

(***************************************************************************)
(* Deserialization as a state machine: each step deserializes one          *)
(* aggregate from one node, the node being an Object with any of the       *)
(* described keys present or missing, or no Object at all.                 *)
(***************************************************************************)
\* the nodes found under the three keys (nullptr: the key is missing)
NameNodes == {nullptr, String(<<"x">>), String(<<>>), int5}
CountNodes == {nullptr, int7, Integer(json_Int("Int64", Wide(-2))), str_s,
               Number(Double(FALSE, 1, <<5>>))}
AliveNodes == {nullptr, Boolean(TRUE), Boolean(FALSE), Null}

EntriesOf(nodes) ==
    [k \in {Descriptors[i].id : i \in {j \in DOMAIN Descriptors : nodes[j] # nullptr}} |->
        nodes[CHOOSE i \in DOMAIN Descriptors : Descriptors[i].id = k]]

Serials ==
    {Object(EntriesOf(<<n, c, a>>)) : n \in NameNodes, c \in CountNodes, a \in AliveNodes}
    \cup {Object(Put(EntriesOf(<<nullptr, int7, nullptr>>), <<"z">>, Null))}
    \cup {Null, Array(<<>>), nullptr}

\* the objects before the call
Players == {<<<<"p">>, Wide(3), TRUE>>, <<<<>>, Wide(-1), FALSE>>}

InitDeserialize ==
    /\ root = Object(NoEntries)
    /\ ncalls = 0
    /\ call = NoCall
    /\ num = NoNum
    /\ des = NoDes
    /\ raw = NoRaw
    /\ scan = NoScan
    /\ fmt = NoFmt
    /\ io = NoIo

Deserialize(object, serial) ==
    /\ LET r == deserialize(object, serial)
       IN  des' = [op |-> "deserialize", object |-> object, serial |-> serial,
                   ok |-> r.ok, result |-> r.value]
    /\ UNCHANGED notDesVars

DeserializeCall ==
    des = NoDes /\ \E object \in Players, serial \in Serials : Deserialize(object, serial)

\* the objects serialized
Originals ==
    {<<name, count, alive>> :
        name \in {<<"p">>, <<>>, <<"a", "b">>},
        count \in {Wide(3), Wide(-1), Wide(0), numeric_limits_min("Int32"),
                   numeric_limits_max("Int32")},
        alive \in BOOLEAN}

\* the zero-valued object
ZeroPlayer == <<<<>>, Wide(0), FALSE>>

Serialize(object) ==
    /\ des' = [op |-> "serialize", object |-> object, serial |-> serialize(object),
               ok |-> TRUE, result |-> object]
    /\ UNCHANGED notDesVars

SerializeCall ==
    des = NoDes /\ \E object \in Originals : Serialize(object)

\* the record of deserializing the tree just serialized into target
Deserialized(before, r) ==
    [before EXCEPT !.op = "serialize-deserialize", !.ok = r.ok, !.result = r.value]

DeserializeBack ==
    /\ des.op = "serialize"
    /\ des' = Deserialized(des, deserialize(ZeroPlayer, des.serial))
    /\ UNCHANGED notDesVars

DesReturn ==
    /\ des # NoDes
    /\ des' = NoDes
    /\ UNCHANGED notDesVars

NextDeserialize == DeserializeCall \/ SerializeCall \/ DeserializeBack \/ DesReturn

SpecDeserialize == InitDeserialize /\ [][NextDeserialize]_vars

\* the described members whose key the deserialized Object lacks
MissingMembers ==
    {i \in DOMAIN Descriptors : Descriptors[i].id \notin DOMAIN des.serial.entries}

\* the value a node of the member's own kind holds
Held(type, node) ==
    CASE type = "boolean_t" -> node.boolean
      [] type = "string_t" -> node.string
      [] OTHER -> Int_as(node.integer, node.integer.type)

OwnKind(type, node) ==
    CASE type = "boolean_t" -> node.kind = "Boolean"
      [] type = "string_t" -> node.kind = "String"
      [] OTHER -> node.kind = "Integer" /\ node.integer.type = type

\* C10: deserializing an aggregate from an Object that lacks the key of a
\* described member reports success, leaves that member at the value it had
\* before the call, and decodes every member whose key is present (a node of
\* the member's own kind gives the member the node's value).
C10_MissingKeyKept ==
    (des.op = "deserialize" /\ des.serial.kind = "Object" /\ MissingMembers # {})
    => /\ des.ok
       /\ \A i \in DOMAIN Descriptors :
            LET type == Descriptors[i].type
            IN  IF i \in MissingMembers
                THEN des.result[i] = des.object[i]
                ELSE LET node == des.serial.entries[Descriptors[i].id]
                     IN  /\ des.result[i] = deserialize_member(type, des.object[i], node).value
                         /\ OwnKind(type, node) => des.result[i] = Held(type, node)

\* a call with one key missing and the two others present with nodes of the
\* members' kinds that differ from the values before the call
C10_Witness ==
    /\ des.op = "deserialize" /\ des.serial.kind = "Object"
    /\ MissingMembers = {2}
    /\ des.ok
    /\ des.result[2] = des.object[2]
    /\ des.result[1] = <<"x">> /\ des.object[1] # <<"x">>
    /\ des.result[3] = TRUE /\ des.object[3] = FALSE

\* C11: serializing an object of the aggregate with its three described
\* members and deserializing the tree into a zero-valued object succeeds and
\* leaves the three members equal to those of the serialized object.
C11_AggregateRoundTrip ==
    des.op = "serialize-deserialize" => des.ok /\ des.result = des.object

\* a round trip of an object that differs from the zero-valued one in every
\* member
C11_Witness ==
    /\ des.op = "serialize-deserialize"
    /\ des.object = <<<<"p">>, numeric_limits_min("Int32"), TRUE>>
    /\ des.serial = Object(Put(Entries2(<<"n">>, String(<<"p">>), <<"a">>, Boolean(TRUE)),
                               <<"c">>, Integer(json_Int("Int32", numeric_limits_min("Int32")))))
    /\ des.ok
    /\ des.result = des.object

\* the described members whose key is present with a node that the member's
\* deserialize rejects
RejectedMembers ==
    {i \in DOMAIN Descriptors :
        /\ Descriptors[i].id \in DOMAIN des.serial.entries
        /\ ~deserialize_member(Descriptors[i].type, des.object[i],
                               des.serial.entries[Descriptors[i].id]).ok}

\* C13: deserializing an aggregate from an Object in which the key of a
\* described member is present with a node of the wrong kind for the member's
\* type returns failure.
C13_WrongKindFails ==
    (des.op = "deserialize" /\ des.serial.kind = "Object" /\ RejectedMembers # {})
    => ~des.ok

(***************************************************************************)
(* Deserialization into containers as a state machine: each step           *)
(* deserializes one node into one container that holds earlier values.     *)
(***************************************************************************)
FixedSize == 2

ContainerTypes ==
    {"T[size_]", "std::array", "std::vector", "std::list", "std::map", "std::unordered_map"}
SequenceTypes == {"T[size_]", "std::array", "std::vector", "std::list"}
ElementTypes == {"string_t", "Int32"}

\* the values the elements hold before the call
EarlierValues(T) ==
    IF T = "string_t" THEN {<<>>, <<"o">>} ELSE {Wide(0), Wide(9)}

\* the containers before the call
Containers(C, T) ==
    CASE C \in {"T[size_]", "std::array"} ->
            {q \in SeqsUpTo(EarlierValues(T), FixedSize) : Len(q) = FixedSize}
      [] C \in {"std::vector", "std::list"} -> SeqsUpTo(EarlierValues(T), 1)
      [] OTHER -> {NoEntries} \cup {Entries1(<<"a">>, v) : v \in EarlierValues(T)}

\* the nodes deserialized: Arrays and Objects of nodes that the element types
\* decode or reject, and nodes that are no container
ElementNodes == {String(<<"x">>), int7, Null}
ContainerSerials ==
    {Array(elements) : elements \in SeqsUpTo(ElementNodes, FixedSize + 1)}
    \cup {Object(EntriesOf2(a, b)) : a \in ElementNodes \cup {nullptr},
                                     b \in ElementNodes \cup {nullptr}}
    \cup {Null, nullptr}

InitContainers ==
    /\ root = Object(NoEntries)
    /\ ncalls = 0
    /\ call = NoCall
    /\ num = NoNum
    /\ des = NoDes
    /\ raw = NoRaw
    /\ scan = NoScan
    /\ fmt = NoFmt
    /\ io = NoIo

DeserializeContainer(C, T, object, serial, order) ==
    /\ LET r == deserialize_container(C, T, object, serial, order)
       IN  des' = [op |-> "container", C |-> C, T |-> T, object |-> object,
                   serial |-> serial, order |-> order, ok |-> r.ok, result |-> r.value]
    /\ UNCHANGED notDesVars

DeserializeContainerCall ==
    /\ des = NoDes
    /\ \E C \in ContainerTypes, T \in ElementTypes, serial \in ContainerSerials,
          order \in {<<<<"a">>, <<"b">>>>, <<<<"b">>, <<"a">>>>} :
            \E object \in Containers(C, T) :
                DeserializeContainer(C, T, object, serial, order)

ContainerReturn ==
    /\ des.op = "container"
    /\ des' = NoDes
    /\ UNCHANGED notDesVars

NextContainers == DeserializeContainerCall \/ ContainerReturn

SpecContainers == InitContainers /\ [][NextContainers]_vars

\* the node has the kind the container decodes, so that a failure is the
\* failure of an element
ContainerKind ==
    /\ des.serial # nullptr
    /\ des.serial.kind = IF des.C \in SequenceTypes THEN "Array" ELSE "Object"

\* the default state of the container: empty, or every element
\* value-initialized where the size is fixed
DefaultState ==
    CASE des.C \in {"T[size_]", "std::array"} ->
            [k \in DOMAIN des.object |-> ValueInitialized(des.T)]
      [] des.C \in {"std::vector", "std::list"} -> <<>>
      [] OTHER -> NoEntries

\* C12: when deserialization into a container returns failure because an
\* element has the wrong node kind, the container is in the state it had
\* before the call or in its default state, never holding a decoded prefix
\* of the source elements.
C12_NoPartialPrefix ==
    (des.op = "container" /\ ~des.ok /\ ContainerKind)
    => (des.result = des.object \/ des.result = DefaultState)

\* the last call deserialized an Array node into a fixed-size native array
FixedDeserialized ==
    des.op = "container" /\ des.C \in {"T[size_]", "std::array"} /\ ContainerKind

\* the number of elements the call visits: min(m, n)
Visited == Min(Len(des.serial.elements), Len(des.object))

\* C27: deserializing an Array node of length m into a fixed-size native
\* array of length n writes no element outside the array and none at an
\* index >= min(m, n): the native elements the node has no element for keep
\* their values, and the elements of the node at an index >= n are ignored,
\* whatever they are, without failure.
C27_FixedArrayBounds ==
    FixedDeserialized =>
        /\ DOMAIN des.result = DOMAIN des.object
        /\ \A i \in DOMAIN des.object : i > Visited => des.result[i] = des.object[i]
        /\ des.ok = \A i \in 1..Visited :
                        deserialize_member(des.T, des.object[i], des.serial.elements[i]).ok
        /\ des.ok => \A i \in 1..Visited :
                        des.result[i] = deserialize_member(des.T, des.object[i],
                                                           des.serial.elements[i]).value

\* a node longer than the native array, whose element past the end is one
\* the element type rejects, was deserialized successfully
C27_Witness ==
    /\ FixedDeserialized /\ des.ok
    /\ Len(des.serial.elements) > Len(des.object)
    /\ ~deserialize_member(des.T, des.object[1],
                           des.serial.elements[Len(des.serial.elements)]).ok
    /\ des.result # des.object

(***************************************************************************)
(* The opaque transcoding as a state machine: an object's bytes are        *)
(* encoded into a String and the String is decoded into an object of the   *)
(* same size, on a machine of either byte order.                           *)
(***************************************************************************)
MaxBytes == 2

InitRaw ==
    /\ root = Object(NoEntries)
    /\ ncalls = 0
    /\ call = NoCall
    /\ num = NoNum
    /\ des = NoDes
    /\ raw = NoRaw
    /\ scan = NoScan
    /\ fmt = NoFmt
    /\ io = NoIo

SerializeRaw(object, little_endian) ==
    /\ raw' = [NoRaw EXCEPT !.op = "serialize_raw", !.little_endian = little_endian,
                            !.object = object,
                            !.serial = serialize_raw(object, little_endian)]
    /\ UNCHANGED notRawVars

SerializeRawCall ==
    /\ raw = NoRaw
    /\ scan = NoScan
    /\ \E little_endian \in BOOLEAN, size \in 1..MaxBytes :
          \E object \in [1..size -> Byte] : SerializeRaw(object, little_endian)

\* the record of decoding the String just encoded
DeserializedRaw(before, r) ==
    [before EXCEPT !.op = "serialize_raw-deserialize_raw", !.ok = r.ok, !.result = r.value]

DeserializeRaw ==
    /\ raw.op = "serialize_raw"
    /\ raw' = DeserializedRaw(raw, deserialize_raw([b \in DOMAIN raw.object |-> 0], raw.serial,
                                                   raw.little_endian))
    /\ UNCHANGED notRawVars

RawReturn ==
    /\ raw.op = "serialize_raw-deserialize_raw"
    /\ raw' = NoRaw
    /\ UNCHANGED notRawVars

NextRaw == SerializeRawCall \/ DeserializeRaw \/ RawReturn

SpecRaw == InitRaw /\ [][NextRaw]_vars

\* the two hexadecimal digits of every byte, most significant byte of the
\* object first
HexDigits(object, little_endian) ==
    [c \in 1..(2 * Len(object)) |->
        LET byte == object[byte_index(Len(object), (c - 1) \div 2, little_endian) + 1]
        IN  HexChars[(IF (c - 1) % 2 = 0 THEN byte \div 16 ELSE byte % 16) + 1]]

\* C14: decoding the String that the opaque encoding made of an object's
\* bytes gives back exactly those bytes, whatever the bytes are, and the
\* String holds each byte as its two hexadecimal digits.
C14_HexRoundTrip ==
    raw.op = "serialize_raw-deserialize_raw"
    => /\ raw.ok
       /\ raw.result = raw.object
       /\ raw.serial.string = HexDigits(raw.object, raw.little_endian)

(***************************************************************************)
(* operator>> step by step (src/json.hpp:2067-2086): the loop that skips   *)
(* the white space before a scalar is taken one ist.read at a time, the    *)
(* rest of the parse, whose loops are bounded by the buffer or stop at the *)
(* end of the stream, in one step.                                         *)
(***************************************************************************)
ScalarTypes == {"Null", "Boolean", "Integer", "Number"}
ScanTypes == ScalarTypes \cup {"Array", "Object"}

\* the streams: finite texts, well formed or not
\* the texts the printer emits for the two infinities
InfinityToken(negative) == double_to_string(infinity(negative), -1)
InfinityTokens == {InfinityToken(negative) : negative \in BOOLEAN}

ScanTexts ==
    {<<>>,
     <<" ">>,
     <<" ", "\n">>,
     <<"n", "u", "l", "l">>,
     <<" ", "n", "u", "l", "l">>,
     <<"n", "u", "l", "l", " ">>,
     <<"n", "u", "l">>,
     <<"t", "r", "u", "e">>,
     <<" ", "f", "a", "l", "s", "e">>,
     <<"t", "r", "u">>,
     <<"1", "2">>,
     <<" ", "-", "1", "2", " ">>,
     <<"+", "7", "x">>,
     <<"1", ".", "5">>,
     <<" ", "2", ".", "5", "0", " ">>,
     <<"1", "e", "2">>,
     <<"1", ".", "2", ".", "3">>,
     <<"-", ".", "5", "e", "-", "1">>,
     <<"1", "n", "5">>,
     <<"[", "]">>,
     <<" ", "[", "1", " ", "]">>,
     <<"[", "1">>,
     <<"{", "}">>,
     <<"{", "\"", "d", "\"", ":", "n", "u", "l", "l", "}">>,
     <<" ", "{", "\"", "d", "\"", ":", "2", " ", "}">>,
     <<"{", "\"", "d">>,
     <<"x">>}
    \cup InfinityTokens

InitScan ==
    /\ root = Object(NoEntries)
    /\ ncalls = 0
    /\ call = NoCall
    /\ num = NoNum
    /\ des = NoDes
    /\ raw = NoRaw
    /\ scan = NoScan
    /\ fmt = NoFmt
    /\ io = NoIo

\* operator>>(std::istream &, C &): parse(ist, c, '\0') with first_char_read
\* = false for a scalar, parse(ist, c) for an Array or an Object
Scan(text, C) ==
    /\ scan' = [NoScan EXCEPT !.op = "parsing", !.C = C, !.ist = istream(text),
                              !.pc = IF C \in ScalarTypes THEN "skip" ELSE "parse"]
    /\ UNCHANGED notScanVars

ScanCall ==
    scan = NoScan /\ \E text \in ScanTexts, C \in ScanTypes : Scan(text, C)

\* what one ist.read(&first_char, 1) of the do-while loop leaves
Skipped(before, r) ==
    [before EXCEPT !.ist = r.ist, !.first_char = r.ch,
                   !.pc = IF isspace(r.ch) THEN "skip" ELSE "value"]

\* do ist.read(&first_char, 1); while(std::isspace(first_char));
\* (1477-1478, 1496-1497, 1525-1526, 1592-1593)
SkipRead ==
    /\ scan.op = "parsing" /\ scan.pc = "skip"
    /\ scan' = Skipped(scan, read(scan.ist, scan.first_char))
    /\ UNCHANGED notScanVars

\* the parse of the value after the white space
parse_scalar(C, ist, first_char) ==
    CASE C = "Null" -> parse_Null(ist, first_char)
      [] C = "Boolean" -> parse_Boolean(ist, first_char)
      [] C = "Integer" -> parse_Integer(ist, first_char)
      [] C = "Number" -> parse_Number(ist, first_char)

\* the record of a parse that returned or threw
Finished(before, r) ==
    [before EXCEPT !.op = IF r.ok THEN "returned" ELSE "thrown",
                   !.pc = "",
                   !.value = IF r.ok THEN r.value ELSE nullptr,
                   !.error = IF r.ok THEN "" ELSE r.error]

ParseScalar ==
    /\ scan.op = "parsing" /\ scan.pc = "value"
    /\ scan' = Finished(scan, parse_scalar(scan.C, scan.ist, scan.first_char))
    /\ UNCHANGED notScanVars

ParseContainer ==
    /\ scan.op = "parsing" /\ scan.pc = "parse"
    /\ scan' = Finished(scan, parse(scan.ist.text, scan.C))
    /\ UNCHANGED notScanVars

ScanReturn ==
    /\ scan.op \in {"returned", "thrown"}
    /\ scan' = NoScan
    /\ UNCHANGED notScanVars

NextScan == ScanCall \/ SkipRead \/ ParseScalar \/ ParseContainer \/ ScanReturn

SpecScan == InitScan /\ [][NextScan]_vars

\* the program keeps running: an iteration of the white-space loop that can
\* change the state is taken, and the parse of the value, which is one step
\* that is always possible, is not put off forever
SpecScanFair ==
    SpecScan /\ WF_vars(SkipRead) /\ []<>(scan.pc \notin {"value", "parse"})

\* C15: every operator>> on a finite stream terminates: it returns a value or
\* raises a parse error after finitely many steps, whatever the text is.
C15_Terminates ==
    (scan.op = "parsing") ~> (scan.op \in {"returned", "thrown"})

(***************************************************************************)
(* Formatting a number_t as a state machine: double_to_string is called    *)
(* with a value and a precision, and the text it returns is kept.          *)
(***************************************************************************)
\* the values formatted: dyadic fractions, whose products with the powers
\* of ten are exact in the source, and 0.999995, for which the source fills
\* the buffer with the digits 9 9 9 9 9 5 and zeros
FormatMagnitudes ==
    {Double(FALSE, 0, <<>>),
     Double(FALSE, 0, <<5>>), Double(FALSE, 0, <<2, 5>>), Double(FALSE, 0, <<7, 5>>),
     Double(FALSE, 0, <<1, 2, 5>>), Double(FALSE, 0, <<3, 7, 5>>),
     Double(FALSE, 0, <<0, 6, 2, 5>>), Double(FALSE, 0, <<4, 3, 7, 5>>),
     Double(FALSE, 0, <<4, 8, 4, 3, 7, 5>>), Double(FALSE, 0, <<1, 4, 8, 4, 3, 7, 5>>),
     Double(FALSE, 0, <<9, 9, 6, 0, 9, 3, 7, 5>>), Double(FALSE, 0, <<9, 9, 9, 9, 9, 5>>),
     Double(FALSE, 1, <<5>>), Double(FALSE, 2, <<5>>), Double(FALSE, 7, <<>>),
     Double(FALSE, 9, <<9, 9, 6, 0, 9, 3, 7, 5>>), Double(FALSE, 99, <<5>>),
     Double(FALSE, 9999, <<9, 9, 6, 0, 9, 3, 7, 5>>),
     \* 1025/2048 and 12345 + 1/4096: more than ten digits after the point
     Double(FALSE, 0, <<5, 0, 0, 4, 8, 8, 2, 8, 1, 2, 5>>),
     Double(FALSE, 1234, <<0, 0, 0, 2, 4, 4, 1, 4, 0, 6, 2, 5>>)}
FormatValues ==
    FormatMagnitudes
    \cup {Double(TRUE, 0, <<9, 9, 6, 0, 9, 3, 7, 5>>), Double(TRUE, 2, <<5>>),
          Double(TRUE, 0, <<1, 4, 8, 4, 3, 7, 5>>)}
Precisions == -1..(c_max_precision + 1)

InitFormat ==
    /\ root = Object(NoEntries)
    /\ ncalls = 0
    /\ call = NoCall
    /\ num = NoNum
    /\ des = NoDes
    /\ raw = NoRaw
    /\ scan = NoScan
    /\ fmt = NoFmt
    /\ io = NoIo

Format(rhs, precision_) ==
    /\ fmt' = [op |-> "format", rhs |-> rhs, precision_ |-> precision_,
               buffer |-> InitialBuffer(rhs), text |-> double_to_string(rhs, precision_)]
    /\ UNCHANGED notFmtVars

FormatCall ==
    fmt = NoFmt /\ \E rhs \in FormatValues, precision_ \in Precisions : Format(rhs, precision_)

FormatReturn ==
    /\ fmt.op = "format"
    /\ fmt' = NoFmt
    /\ UNCHANGED notFmtVars

NextFormat == FormatCall \/ FormatReturn

SpecFormat == InitFormat /\ [][NextFormat]_vars

\* the fraction digits of the generated buffer, left to right
BufferFraction(rhs) ==
    [k \in 1..(c_max_fraction_index - c_min_fraction_index + 1) |->
        DigitOf(InitialBuffer(rhs)[c_min_fraction_index + k - 1])]

\* the decimal digits of a natural number, most significant first
RECURSIVE DigitsOfNat(_)
DigitsOfNat(n) == IF n < 10 THEN <<n>> ELSE Append(DigitsOfNat(n \div 10), n % 10)

\* a digit sequence plus one, the carry moving leftward and, past the first
\* digit, opening a new one
RECURSIVE PlusOne(_)
PlusOne(digits) ==
    IF digits = <<>> THEN <<1>>
    ELSE IF digits[Len(digits)] < 9 THEN [digits EXCEPT ![Len(digits)] = @ + 1]
    ELSE Append(PlusOne(SubSeq(digits, 1, Len(digits) - 1)), 0)

\* the text of a digit sequence whose last p digits are the fraction
DecimalText(negative, digits, p) ==
    (IF negative THEN <<"-">> ELSE <<>>)
    \o [n \in 1..(Len(digits) - p) |-> CharOf(digits[n])]
    \o (IF p = 0 THEN <<>>
        ELSE <<".">> \o [n \in 1..p |-> CharOf(digits[Len(digits) - p + n])])

\* the buffer rounded half-up to p fraction digits: the digits kept, plus
\* one when the first dropped digit is 5 or more
HalfUp(rhs, p) ==
    LET fraction == BufferFraction(rhs)
        kept == DigitsOfNat(rhs.integer) \o SubSeq(fraction, 1, p)
        up == p < Len(fraction) /\ fraction[p + 1] >= 5
    IN  DecimalText(rhs.negative, IF up THEN PlusOne(kept) ELSE kept, p)

\* a digit buffer was generated: the value is not zero
Generated(rhs) == rhs.integer # 0 \/ rhs.fraction # <<>>

\* C17: for every precision p in 0..16 and every generated digit buffer the
\* text is the buffer rounded half-up to p fraction digits: the kept digits
\* go up by one exactly when the (p+1)-th fraction digit is 5 or more, with
\* the carry moving left through the fraction and then the integer digits,
\* and the digits after the (p+1)-th have no effect.
C17_RoundHalfUp ==
    (fmt.op = "format" /\ Generated(fmt.rhs) /\ fmt.precision_ \in 0..c_max_precision)
    => fmt.text = HalfUp(fmt.rhs, fmt.precision_)

\* the first p fraction digits of the buffer are all 9 and the next one
\* rounds up
AllNines(rhs, p) ==
    /\ p \in 1..(c_max_precision - 1)
    /\ \A k \in 1..p : BufferFraction(rhs)[k] = 9
    /\ BufferFraction(rhs)[p + 1] >= 5

\* C18: when the fraction digits kept at the chosen precision are all 9 and
\* the value rounds up, the carry goes into the integer part, and 0.999995
\* at precision 2 gives the text "1.0", not "0.99".
C18_CarryIntoInteger ==
    /\ (fmt.op = "format" /\ AllNines(fmt.rhs, fmt.precision_))
       => fmt.text = DecimalText(fmt.rhs.negative,
                                 PlusOne(DigitsOfNat(fmt.rhs.integer))
                                 \o Zeros(fmt.precision_), fmt.precision_)
    /\ (fmt.op = "format" /\ fmt.rhs = Double(FALSE, 0, <<9, 9, 9, 9, 9, 5>>)
                          /\ fmt.precision_ = 2)
       => fmt.text = <<"1", ".", "0">>

\* the buffer holds digit d at index c
BufferDigit(c, d) == fmt.buffer[c] = CharOf(d)

\* C28: in the digit buffer of double_to_string, the k-th character after
\* the point is the digit floor(fraction * 10^k) mod 10 for k = 1..16, and
\* the character k places left of the point is floor(integer / 10^k) mod 10
\* for k = 0..15.
C28_BufferDigits ==
    fmt.op = "format" =>
        /\ \A k \in 1..16 :
              BufferDigit(c_min_fraction_index + k - 1, FractionDigit(fmt.rhs.fraction, k))
        /\ \A k \in 0..15 :
              BufferDigit(c_max_integer_index - k, IntegerDigit(fmt.rhs.integer, k))

(***************************************************************************)
(* Printing and parsing as a state machine: a tree is printed to a text    *)
(* (operator<<) or a text arrives from outside, the text is parsed into an *)
(* Object or an Array (operator>>), and the caller takes the result.       *)
(***************************************************************************)
MaxElements == 2

\* the scalars at the leaves of the trees
Leaves == {Null, Boolean(TRUE), Boolean(FALSE), int5,
           Integer(json_Int("Int64", Wide(-2))), Integer(json_Int("Int8", Wide(-1))),
           Integer(json_Int("UInt8", Wide(200))),
           Number(Double(FALSE, 1, <<5>>)), Number(Double(TRUE, 0, <<2, 5>>)),
           Number(Double(FALSE, 2, <<>>)), str_s, String(<<>>)}
InnerLeaves == {Null, int5, str_s}

TreeKeys == <<<<"a">>, <<"b">>>>
Orders == {TreeKeys, <<TreeKeys[2], TreeKeys[1]>>}
Styles == {DefaultStyle, CompactStyle}

ArraysOf(nodes) == {Array(elements) : elements \in SeqsUpTo(nodes, MaxElements)}
ObjectsOf(nodes) ==
    {Object(EntriesOf2(a, b)) : a \in nodes \cup {nullptr}, b \in nodes \cup {nullptr}}

\* the Arrays and Objects built from the nodes
Trees(nodes) == ArraysOf(nodes) \cup ObjectsOf(nodes)

\* what a printed tree holds: a scalar or a tree of scalars
Elements == Leaves \cup Trees(InnerLeaves)

\* the texts that arrive from outside: the scenario text
\*   {"a": 1, "b": [1,2,3], "c": {"d": null}}
\* and the texts that write its array and its inner object in other ways
ScenarioHead == <<"{", "\"", "a", "\"", ":", " ", "1", ",", " ", "\"", "b", "\"", ":", " ">>
ScenarioArray == <<"[", "1", ",", "2", ",", "3", "]">>
ScenarioMiddle == <<",", " ", "\"", "c", "\"", ":", " ">>
ScenarioObject == <<"{", "\"", "d", "\"", ":", " ", "n", "u", "l", "l", "}">>
ScenarioTail == <<"}">>
ScenarioText == ScenarioHead \o ScenarioArray \o ScenarioMiddle \o ScenarioObject \o ScenarioTail

ArrayTexts == {ScenarioArray,
               <<"[", "1", ",", "2", ",", "3", " ", "]">>,
               <<"[", "1", ",", " ", "2", ",", " ", "3", "]">>,
               <<"[", "]">>,
               <<"[", "1", ",", "2", ",", "n", "u", "l", "l", "]">>,
               <<"[", "\"", "x", "\"", "]">>,
               <<"[", "1", ".", "5", "\n", "]">>}
ObjectTexts == {ScenarioObject,
                <<"{", "}">>,
                <<"{", " ", "\"", "d", "\"", " ", ":", "n", "u", "l", "l", " ", "}">>,
                <<"{", "\"", "d", "\"", ":", "2", "}">>}
\* the documents that hold an empty Object or an empty Array, as the whole
\* document and as a value inside an Object or an Array, each with the tree
\* it writes
EmptyObject == Object(NoEntries)
EmptyArray == Array(<<>>)
EmptyDocuments ==
    (<<"{", "}">> :> EmptyObject)
    @@ (<<"{", " ", "}">> :> EmptyObject)
    @@ (<<"[", "]">> :> EmptyArray)
    @@ (<<"[", " ", "]">> :> EmptyArray)
    @@ (<<"{", "\"", "a", "\"", ":", "{", "}", "}">> :> Object(Entries1(<<"a">>, EmptyObject)))
    @@ (<<"{", "\"", "a", "\"", ":", "[", "]", "}">> :> Object(Entries1(<<"a">>, EmptyArray)))
    @@ (<<"[", "{", "}", "]">> :> Array(<<EmptyObject>>))
    @@ (<<"[", "[", "]", "]">> :> Array(<<EmptyArray>>))
    @@ (<<"[", "[", "]", ",", "{", "}", "]">> :> Array(<<EmptyArray, EmptyObject>>))

\* a numeric tok as the value of an Object entry and as an Array element;
\* the element is followed by a space
EntryDocument(tok) == <<"{", "\"", "a", "\"", ":">> \o tok \o <<"}">>
ElementDocument(tok) == <<"[">> \o tok \o <<" ", "]">>

\* tokens with one exponent marker after a digit, each with the number it
\* writes
ExponentTokens ==
    (<<"1", "e", "5">> :> Double(FALSE, 100000, <<>>))
    @@ (<<"1", "2", "e", "3">> :> Double(FALSE, 12000, <<>>))
    @@ (<<"1", "2", "E", "3">> :> Double(FALSE, 12000, <<>>))
    @@ (<<"1", "2", "e", "+", "3">> :> Double(FALSE, 12000, <<>>))
    @@ (<<"1", ".", "5", "e", "-", "3">> :> Double(FALSE, 0, <<0, 0, 1, 5>>))
    @@ (<<"-", "2", ".", "5", "e", "-", "1">> :> Double(TRUE, 0, <<2, 5>>))

\* tokens with a second exponent marker, or with the marker before any digit
BadExponentTokens == {<<"1", "2", "e", "3", "e", "4">>, <<"1", "e", "5", "e">>, <<"-", "e", "5">>, <<".", "e", "5">>}

\* tokens with a sign that is neither the first character nor the one after
\* the exponent marker
BadSignTokens == {<<"1", "-", "2">>, <<"5", "+">>, <<"1", "2", "e", "3", "-", "4">>, <<"1", "2", "e", "3", "+", "4">>, <<"1", "2", "e", "-", "3", "-", "4">>, <<"-", "1", "-">>}

\* tokens with no exponent, signed or not
PlainTokens == {<<"1", "2">>, <<"-", "1", "2">>, <<"+", "5">>, <<"1", ".", "5">>}

NumericTokens ==
    DOMAIN ExponentTokens \cup BadExponentTokens \cup BadSignTokens \cup PlainTokens
    \cup InfinityTokens
NumericDocuments ==
    {EntryDocument(tok) : tok \in NumericTokens}
    \cup {ElementDocument(tok) : tok \in NumericTokens}

TailTexts == {ScenarioTail, <<" ", "}">>, <<>>}
Texts == {ScenarioHead \o a \o ScenarioMiddle \o o \o t :
            a \in ArrayTexts, o \in ObjectTexts, t \in TailTexts}

InitText ==
    /\ root = Object(NoEntries)
    /\ ncalls = 0
    /\ call = NoCall
    /\ num = NoNum
    /\ des = NoDes
    /\ raw = NoRaw
    /\ scan = NoScan
    /\ fmt = NoFmt
    /\ io = NoIo

Output(tree, style, order) ==
    /\ io' = [NoIo EXCEPT !.op = "print", !.tree = tree, !.C = tree.kind, !.style = style,
                          !.order = order, !.text = print(tree, style, order)]
    /\ UNCHANGED notIoVars

Receive(text, C) ==
    /\ io' = [NoIo EXCEPT !.op = "text", !.C = C, !.text = text]
    /\ UNCHANGED notIoVars

\* the record of a parse: what operator>> returned or threw
Parsed(before, r) ==
    [before EXCEPT !.op = IF before.op = "print" THEN "print-parse" ELSE "text-parse",
                   !.ok = r.ok,
                   !.result = IF r.ok THEN r.value ELSE nullptr,
                   !.error = IF r.ok THEN "" ELSE r.error]

Parse ==
    /\ io.op \in {"print", "text"}
    /\ io' = Parsed(io, parse(io.text, io.C))
    /\ UNCHANGED notIoVars

OutputCall ==
    io = NoIo /\ \E tree \in Trees(Elements), style \in Styles, order \in Orders : Output(tree, style, order)

\* documents in which '}' comes right after a key and its ':'
\*   {"k":}   {"a":1,"k": }   {"a":{"k":}}   [{"k":}]
DanglingKeyDocuments ==
    {<<"{", "\"", "k", "\"", ":", "}">>,
     <<"{", "\"", "a", "\"", ":", "1", ",", "\"", "k", "\"", ":", " ", "}">>,
     <<"{", "\"", "a", "\"", ":", "{", "\"", "k", "\"", ":", "}", "}">>,
     <<"[", "{", "\"", "k", "\"", ":", "}", "]">>}

ReceiveCall ==
    io = NoIo /\ \E text \in Texts \cup DOMAIN EmptyDocuments \cup NumericDocuments
                               \cup DanglingKeyDocuments,
                    C \in {"Object", "Array"} :
                    Receive(text, C)

IoReturn ==
    /\ io.op \in {"print-parse", "text-parse"}
    /\ io' = NoIo
    /\ UNCHANGED notIoVars

NextText == OutputCall \/ ReceiveCall \/ Parse \/ IoReturn

SpecText == InitText /\ [][NextText]_vars

\* structural equality: same kinds, same scalar values, same elements in the
\* same order, same keys with equal values
RECURSIVE SameTree(_, _)
SameTree(x, y) ==
    /\ x.kind = y.kind
    /\ CASE x.kind = "Integer" ->
                Int_as(x.integer, x.integer.type) = Int_as(y.integer, y.integer.type)
         [] x.kind = "Array" ->
                /\ Len(x.elements) = Len(y.elements)
                /\ \A n \in DOMAIN x.elements : SameTree(x.elements[n], y.elements[n])
         [] x.kind = "Object" ->
                /\ DOMAIN x.entries = DOMAIN y.entries
                /\ \A k \in DOMAIN x.entries : SameTree(x.entries[k], y.entries[k])
         [] OTHER -> x = y

\* C1: parsing the text printed from a tree (no NaN or Infinity Number in it,
\* no opaque binary field) succeeds and yields a tree structurally equal to
\* the printed one.
C1_RoundTrip ==
    io.op = "print-parse" => io.ok /\ SameTree(io.result, io.tree)

Integer1(n) == Integer(json_Int("Int64", Wide(n)))

\* C2: parsing {"a": 1, "b": [1,2,3], "c": {"d": null}} into an Object raises
\* no error and yields exactly the entries a = Integer 1, b = Array of the
\* Integers 1, 2, 3 and c = Object whose entry d is Null.
C2_Scenario ==
    (io.op = "text-parse" /\ io.C = "Object" /\ io.text = ScenarioText)
    => /\ io.ok
       /\ SameTree(io.result,
                   Object(Put(Entries2(<<"a">>, Integer1(1),
                                       <<"b">>, Array(<<Integer1(1), Integer1(2), Integer1(3)>>)),
                              <<"c">>, Object(Entries1(<<"d">>, Null)))))

\* C16: the empty object {} and the empty array [] are accepted as a whole
\* document parsed into an Object / an Array and as a value inside an Object
\* or an Array: the parse raises no error and yields the Object with no
\* entries or the Array with no elements at that place.
C16_EmptyAccepted ==
    (io.op = "text-parse" /\ io.text \in DOMAIN EmptyDocuments
                          /\ io.C = EmptyDocuments[io.text].kind)
    => io.ok /\ SameTree(io.result, EmptyDocuments[io.text])

\* the last parse read the tok as the value of an Object entry, or as an
\* Array element
EntryParsed(tok) ==
    io.op = "text-parse" /\ io.C = "Object" /\ io.text = EntryDocument(tok)
ElementParsed(tok) ==
    io.op = "text-parse" /\ io.C = "Array" /\ io.text = ElementDocument(tok)

\* C21: in both value positions a tok of digits, one exponent marker e or
\* E, an optional sign and exponent digits is accepted and gives a Number
\* node; a tok with a second marker, or with the marker before any digit,
\* is rejected with a parse error.
C21_Exponent ==
    /\ \A tok \in DOMAIN ExponentTokens :
          /\ EntryParsed(tok)
             => io.ok /\ io.result = Object(Entries1(<<"a">>, Number(ExponentTokens[tok])))
          /\ ElementParsed(tok)
             => io.ok /\ io.result = Array(<<Number(ExponentTokens[tok])>>)
    /\ \A tok \in BadExponentTokens :
          (EntryParsed(tok) \/ ElementParsed(tok)) => ~io.ok

\* C22: a '+' or '-' that is neither the first character of a numeric tok
\* nor the character right after the exponent marker raises a parse error,
\* after exponent digits too.
C22_SignPlace ==
    \A tok \in BadSignTokens :
        (EntryParsed(tok) \/ ElementParsed(tok)) => ~io.ok

\* C24: the texts 9e+999 and -9e+999 that the printer emits for the
\* infinities are accepted as the value of an Object entry and as an Array
\* element, and parse to the Number of the same infinity.
C24_Infinity ==
    \A negative \in BOOLEAN :
        /\ EntryParsed(InfinityToken(negative))
           => io.ok /\ io.result = Object(Entries1(<<"a">>, Number(infinity(negative))))
        /\ ElementParsed(InfinityToken(negative))
           => io.ok /\ io.result = Array(<<Number(infinity(negative))>>)

\* part occurs in text
Contains(text, part) ==
    \E k \in 0..(Len(text) - Len(part)) : SubSeq(text, k + 1, k + Len(part)) = part

InlineKinds == {"Null", "Boolean", "Integer", "Number"}

\* the last operation printed an Array that has elements with the default
\* style
ArrayPrinted ==
    io.op = "print" /\ io.tree.kind = "Array" /\ io.tree.elements # <<>>
    /\ io.style = DefaultStyle

\* element n of the printed Array is on a line of its own: a line break and
\* the indentation of the elements come right before it
OwnLine(n) ==
    Contains(io.text, print_newline(io.style) \o print_padding(1, io.style)
                      \o print_Base(io.tree.elements[n], 1, io.style, io.order))

\* C26: the layout of a printed Array depends only on the kind of its first
\* element: after a first Null, Boolean, Integer or Number the elements are
\* on a single line, with no line break between '[' and ']' whatever the
\* later elements are; after a first Array, Object or String every element
\* is on an indented line of its own.
C26_FirstElementLayout ==
    ArrayPrinted =>
        IF io.tree.elements[1].kind \in InlineKinds
        THEN ~Contains(io.text, print_newline(io.style))
        ELSE \A n \in DOMAIN io.tree.elements :
                io.tree.elements[n].kind \in InlineKinds \cup {"String"} => OwnLine(n)

\* no entry of the tree has a null value or the empty key, and no element
\* is null
RECURSIVE NoNullValue(_)
NoNullValue(node) ==
    CASE node.kind = "Object" ->
            \A key \in DOMAIN node.entries :
                key # <<>> /\ node.entries[key] # nullptr /\ NoNullValue(node.entries[key])
      [] node.kind = "Array" ->
            \A n \in DOMAIN node.elements :
                node.elements[n] # nullptr /\ NoNullValue(node.elements[n])
      [] OTHER -> TRUE

\* C29: when the parse of an Object or an Array returns without error, every
\* entry of the tree has a value that is not null, under the key that was
\* written, and every Array element is not null; a key and its ':' followed
\* directly by '}' is never stored as an entry with the empty key and a
\* null value.
C29_NoNullValue ==
    (io.op = "text-parse" /\ io.ok) => NoNullValue(io.result)

(***************************************************************************)
(* Parsing a stream that ends too early: a document is cut after any       *)
(* number of its characters and parsed, with any content of the chars the  *)
(* parser leaves uninitialized.                                            *)
(***************************************************************************)
\* {"a": 1, "b": [1 , "x" ], "c": { "d" :null }, "e": true }
CompleteObject ==
    <<"{", "\"", "a", "\"", ":", " ", "1", ",", " ", "\"", "b", "\"", ":",
      " ", "[", "1", " ", ",", " ", "\"", "x", "\"", " ", "]", ",", " ",
      "\"", "c", "\"", ":", " ", "{", " ", "\"", "d", "\"", " ", ":", "n",
      "u", "l", "l", " ", "}", ",", " ", "\"", "e", "\"", ":", " ", "t", "r",
      "u", "e", " ", "}">>
\* [1 , "x", [true ], {"k":2.5}, null ]
CompleteArray ==
    <<"[", "1", " ", ",", " ", "\"", "x", "\"", ",", " ", "[", "t", "r", "u",
      "e", " ", "]", ",", " ", "{", "\"", "k", "\"", ":", "2", ".", "5", "}",
      ",", " ", "n", "u", "l", "l", " ", "]">>
CompleteDocument(C) == IF C = "Object" THEN CompleteObject ELSE CompleteArray

\* what a char that was never assigned may hold
Uninitialized == {"indeterminate", "{", "}", "[", "]", "\"", ",", ":", " "}

ReceiveCut(C, n, garbage) ==
    /\ io' = [NoIo EXCEPT !.op = "text", !.C = C, !.text = SubSeq(CompleteDocument(C), 1, n),
                          !.uninitialized = garbage]
    /\ UNCHANGED notIoVars

ReceiveCutCall ==
    io = NoIo /\ \E C \in {"Object", "Array"}, garbage \in Uninitialized :
                    \E n \in 0..Len(CompleteDocument(C)) : ReceiveCut(C, n, garbage)

NextCut == ReceiveCutCall \/ Parse \/ IoReturn

SpecCut == InitText /\ [][NextCut]_vars

\* the text parsed is a document cut before its last character
CutShort == Len(io.text) < Len(CompleteDocument(io.C))

\* C23: when the stream ends before the outermost Object or Array is closed
\* (while skipping white space, inside a string, a literal or a number, or
\* where a ',' or the closing delimiter is expected) the parse raises an
\* error; it never returns normally.
C23_EndOfStream ==
    (io.op = "text-parse" /\ CutShort) => ~io.ok

(***************************************************************************)
(* Printing Integer nodes: one node of each tag, with the boundary values  *)
(* of its type, is written to a stream.                                    *)
(***************************************************************************)
PrintIntegerCall ==
    io = NoIo /\ \E jinteger \in IntegerNodes : Output(jinteger, DefaultStyle, <<>>)

PrintReturn ==
    /\ io.op = "print"
    /\ io' = NoIo
    /\ UNCHANGED notIoVars

NextPrintInteger == PrintIntegerCall \/ PrintReturn

SpecPrintInteger == InitText /\ [][NextPrintInteger]_vars

\* the value an Integer node holds: the union read as the type of its tag
IntegerValue(jinteger) == Int_as(jinteger.integer, jinteger.integer.type)

\* C25: for each of the eight tags and each value of its type, printing an
\* Integer node emits the decimal representation of the value, with a
\* leading '-' exactly when the value is negative.
C25_DecimalInteger ==
    (io.op = "print" /\ io.tree.kind = "Integer")
        => io.text = ostream_integer(IntegerValue(io.tree))

(***************************************************************************)
(* Objects with repeated keys: a list of entries is handed to the          *)
(* constructor Object(Entry (&&)[size_]), or written as a document and     *)
(* parsed.                                                                 *)
(***************************************************************************)
MaxEntries == 3
EntryValues == {Integer1(5), Integer1(7), str_s}
EntryLists ==
    SeqsUpTo([key : {<<"a">>, <<"b">>}, value : EntryValues], MaxEntries)

\* "key":value,"key":value from the i-th entry on
RECURSIVE EntriesText(_, _)
EntriesText(entries_, i) ==
    IF i > Len(entries_) THEN <<>>
    ELSE <<"\"">> \o entries_[i].key \o <<"\"", ":">>
         \o print_Base(entries_[i].value, 0, CompactStyle, <<>>)
         \o (IF i < Len(entries_) THEN <<",">> ELSE <<>>)
         \o EntriesText(entries_, i + 1)

ObjectDocument(entries_) == <<"{">> \o EntriesText(entries_, 1) \o <<"}">>

Construct(entries_) ==
    /\ io' = [NoIo EXCEPT !.op = "construct", !.C = "Object", !.entries_ = entries_,
                          !.ok = TRUE,
                          !.result = Object(insert_entries(entries_, 1, NoEntries))]
    /\ UNCHANGED notIoVars

ReceiveEntries(entries_) ==
    /\ io' = [NoIo EXCEPT !.op = "text", !.C = "Object", !.entries_ = entries_,
                          !.text = ObjectDocument(entries_)]
    /\ UNCHANGED notIoVars

ConstructCall == io = NoIo /\ \E entries_ \in EntryLists : Construct(entries_)

\* a document of one entry or more
ReceiveEntriesCall ==
    io = NoIo /\ \E entries_ \in EntryLists \ {<<>>} : ReceiveEntries(entries_)

ConstructReturn ==
    /\ io.op = "construct"
    /\ io' = NoIo
    /\ UNCHANGED notIoVars

NextEntries == ConstructCall \/ ReceiveEntriesCall \/ Parse \/ IoReturn \/ ConstructReturn

SpecEntries == InitText /\ [][NextEntries]_vars

\* the first entry of the list that has the key
FirstOccurrence(entries_, key) ==
    CHOOSE i \in DOMAIN entries_ :
        entries_[i].key = key /\ \A j \in 1..(i - 1) : entries_[j].key # key

\* each key of the list with the value of its first entry
FirstOccurrences(entries_) ==
    [key \in {entries_[i].key : i \in DOMAIN entries_} |->
        entries_[FirstOccurrence(entries_, key)].value]

\* C30: an Object never holds two entries with the same key: when a key is
\* repeated in the parsed text or in the entry list of the constructor, the
\* Object holds one entry for it, with the value of the first occurrence;
\* the later ones are discarded without error.
C30_FirstKeyWins ==
    io.op \in {"construct", "text-parse"}
        => io.ok /\ io.result = Object(FirstOccurrences(io.entries_))

\* a document that repeats a key with another value was parsed
C30_Witness ==
    /\ io.op = "text-parse" /\ io.ok
    /\ \E i, j \in DOMAIN io.entries_ :
          i < j /\ io.entries_[i].key = io.entries_[j].key
                /\ io.entries_[i].value # io.entries_[j].value

====
